---- MODULE Spec2Model ----
(***************************************************************************)
(* A model of the AI App Integrator (kstij/WEAM-INT):                      *)
(*   - AIIntegrator  (src/ai/AIIntegrator.js): the mutate run, which plans *)
(*     with one oracle request, parses the reply into edit directives and  *)
(*     rewrites each target file in place;                                 *)
(*   - CodeGenerator (src/generator/CodeGenerator.js): the generate run,   *)
(*     a fixed pipeline of template expansions written under one output    *)
(*     directory.                                                          *)
(* Strings are sequences of tokens: "File:" is the marker, " " a blank,    *)
(* "\n" a newline, every other token a piece of ordinary text.  File       *)
(* system paths are sequences of segments.                                 *)
(*   - AppScanner (src/scanner/AppScanner.js): the scan, a fixed sequence  *)
(*     of detectors over a source tree that fills in one appInfo object;   *)
(*   - IntegrationTester (src/utils/IntegrationTester.js): the battery of  *)
(*     checks run over the generated files.                                *)
(* A source file is a sequence of the lexemes the scanner's patterns look  *)
(* for; a generated file is the set of the tokens the tester looks for.    *)
(***************************************************************************)
EXTENDS Integers, Sequences, FiniteSets, TLC

VARIABLES
    \* ---- the app tree and the oracle, as the mutate run sees them
    initialFiles,     \* the target paths that exist as files before the run
    readonly,         \* the target paths on which fs.writeFile rejects
    fs,               \* path -> content, or Absent
    dirs,             \* the directories of the app tree that exist
    \* ---- AIIntegrator.integrateApp
    mpc,              \* "start" | "apply" | "done" | "aborted" ("idle": no run)
    abortCause,       \* "none" | "analysis" | "oracle": what integrateApp rethrew
    response,         \* the planning reply, split into lines
    recommendations,  \* parseAIResponse(response)
    idx,              \* the for-loop's position in recommendations
    changes,          \* the changes list of applyAIChanges
    rewrites,         \* number of rewrite requests sent to the oracle
    writeLog,         \* the fs.writeFile calls that resolved, in order
    result,           \* <<>> or <<the object integrateApp returned>>
    \* ---- CodeGenerator.generateIntegration
    cwd,              \* the process working directory
    appInfo,          \* the AppModel handed to generate
    manifest,         \* <<>> or <<the app's package.json>>
    userPreferences,  \* addAuth, addDatabase, addBranding
    gpc,              \* the next expansion, "return", "done" or "failed" ("idle": no run)
    integrationFiles, \* the list generate is building
    written,          \* the fs.writeFile calls of generate that resolved
    outDirs,          \* directories created by fs.ensureDir
    gresult,          \* <<>> or <<the list generateIntegration returned>>
    \* ---- AppScanner.scanApp
    tree,             \* the source tree scanApp is pointed at
    spc,              \* the next step of scanApp, "done" or "failed" ("idle": no run)
    scanned,          \* the appInfo object scanApp is filling in
    scanError,        \* "none", or the step whose rejection scanApp rethrew
    scanResult,       \* <<>> or <<the appInfo scanApp returned>>
    \* ---- IntegrationTester.testIntegration
    disk,             \* generated file -> what is on disk under that name
    generated,        \* the integrationFiles list handed to testIntegration
    tpc,              \* the next test of testIntegration, "ready" between calls
    testResults,      \* this.testResults
    calls,            \* number of testIntegration calls begun on this tester
    reports           \* what each call returned, as it was when it returned

mvars == <<initialFiles, readonly, fs, dirs, mpc, abortCause, response,
           recommendations, idx, changes, rewrites, writeLog, result>>
gvars == <<cwd, appInfo, manifest, userPreferences, gpc, integrationFiles,
           written, outDirs, gresult>>
svars == <<tree, spc, scanned, scanError, scanResult>>
tvars == <<disk, generated, tpc, testResults, calls, reports>>
vars == <<mvars, gvars, svars, tvars>>

-----------------------------------------------------------------------------
(* Bounds *)

\* the longest planning reply, in lines
MaxLines == 3
\* the most models an AppModel carries
MaxModels == 2

-----------------------------------------------------------------------------
(* Strings *)

RECURSIVE TrimStart(_)
TrimStart(s) ==
    IF s = <<>> THEN <<>>
    ELSE IF Head(s) = " " THEN TrimStart(Tail(s)) ELSE s

RECURSIVE TrimEnd(_)
TrimEnd(s) ==
    IF s = <<>> THEN <<>>
    ELSE IF s[Len(s)] = " " THEN TrimEnd(SubSeq(s, 1, Len(s) - 1)) ELSE s

\* String.prototype.trim
Trim(s) == TrimEnd(TrimStart(s))

\* line.trim().startsWith('File:') in place of line.startsWith('File:')
StartsWithFileTrimmed(line) ==
    \E i \in 1..Len(line) :
        /\ line[i] = "File:"
        /\ \A j \in 1..(i - 1) : line[j] = " "

\* line.startsWith('File:')
StartsWithFile(line) == Len(line) > 0 /\ line[1] = "File:"

\* line.replace('File:', ''): the first occurrence is removed
RECURSIVE ReplaceFile(_)
ReplaceFile(line) ==
    IF line = <<>> THEN <<>>
    ELSE IF Head(line) = "File:" THEN Tail(line)
    ELSE <<Head(line)>> \o ReplaceFile(Tail(line))

-----------------------------------------------------------------------------
(* AIIntegrator.parseAIResponse *)

\* the path taken without .trim()
NewRecommendationUntrimmed(line) ==
    [filePath |-> ReplaceFile(line), action |-> "modify", changes |-> <<>>]

NewRecommendation(line) ==
    [filePath |-> Trim(ReplaceFile(line)), action |-> "modify", changes |-> <<>>]

\* the loop over lines: recs is the list built so far, cur is <<>> (null) or
\* <<currentRecommendation>>
RECURSIVE ParseLines(_, _, _)
ParseLines(lines, recs, cur) ==
    IF lines = <<>> THEN recs \o cur
    ELSE LET line == Head(lines) IN
         IF StartsWithFile(line)
         THEN ParseLines(Tail(lines), recs \o cur, <<NewRecommendation(line)>>)
         ELSE IF cur # <<>> /\ Trim(line) # <<>>
         THEN ParseLines(Tail(lines), recs,
                  <<[cur[1] EXCEPT !.changes = @ \o line \o <<"\n">>]>>)
         ELSE ParseLines(Tail(lines), recs, cur)

\* a parser that keeps one directive per file path, the later replacing the
\* earlier
RECURSIVE DropEarlier(_)
DropEarlier(recs) ==
    IF recs = <<>> THEN <<>>
    ELSE IF \E j \in 2..Len(recs) : recs[j].filePath = recs[1].filePath
         THEN DropEarlier(Tail(recs))
         ELSE <<Head(recs)>> \o DropEarlier(Tail(recs))

parseAIResponseOnePerPath(resp) == DropEarlier(ParseLines(resp, <<>>, <<>>))

parseAIResponse(resp) == ParseLines(resp, <<>>, <<>>)

-----------------------------------------------------------------------------
(* The app tree of the mutate run *)

Absent == "absent"

\* the file paths an oracle reply of this model can name, relative to the app
\* root; <<>> is the empty path, which path.join resolves to the app root itself
PathA == <<"a">>
PathB == <<"d", "/", "b">>
\* a path that climbs out of the app root
PathUp == <<"..", "/", "x">>
AppRootPath == <<>>
TargetPaths == {PathA, PathB, PathUp}

\* the sibling <path>.bak
Bak(p) == p \o <<".bak">>
FsPaths == TargetPaths \cup {Bak(p) : p \in TargetPaths}

\* path.dirname: everything before the last "/"
RECURSIVE Dirname(_)
Dirname(p) ==
    IF p = <<>> THEN <<>>
    ELSE IF p[Len(p)] = "/" THEN SubSeq(p, 1, Len(p) - 1)
    ELSE Dirname(SubSeq(p, 1, Len(p) - 1))

\* fs.ensureDir(dir): dir and every ancestor of it exist afterwards
RECURSIVE DirChain(_)
DirChain(d) == IF d = <<>> THEN {<<>>} ELSE {d} \cup DirChain(Dirname(d))

\* the path is a directory of the tree: fs.pathExists holds, fs.readFile
\* rejects with EISDIR
IsDirectory(p) == p \in dirs

InitialFs == [p \in FsPaths |-> IF p \in initialFiles THEN "v0" ELSE Absent]

\* every line the oracle's planning reply is drawn from
Lines ==
    { <<"File:", " ", "a">>,           \* marker, path a
      <<"File:", "..", "/", "x", " ">>, \* marker, path ../x, other spacing
      <<"File:", " ", "d", "/", "b">>, \* marker, path d/b
      <<"File:">>,                     \* marker with an empty path
      <<" ", "File:", "a">>,           \* indented: not a marker
      <<>>,                            \* empty line
      <<" ">>,                         \* blank line
      <<"x">>,                         \* text
      <<" ", "y">> }                   \* indented text

\* response.split('\n') of any text has at least one line
Responses == UNION {[1..n -> Lines] : n \in 1..MaxLines}

\* what a rewrite request can answer
NewContents == {"n1", "n2"}

-----------------------------------------------------------------------------
(* AIIntegrator.generateSummary *)

RECURSIVE CountSuccess(_, _)
CountSuccess(cs, flag) ==
    IF cs = <<>> THEN 0
    ELSE (IF Head(cs).success = flag THEN 1 ELSE 0) + CountSuccess(Tail(cs), flag)

generateSummary(cs) ==
    [total |-> Len(cs),
     successful |-> CountSuccess(cs, TRUE),
     failed |-> CountSuccess(cs, FALSE),
     files |-> [i \in 1..Len(cs) |-> cs[i].file]]

-----------------------------------------------------------------------------
(* AIIntegrator.integrateApp and applyAIChanges *)

GenIdle ==
    /\ cwd = <<>>
    /\ appInfo = [path |-> <<>>, models |-> <<>>]
    /\ manifest = <<>>
    /\ userPreferences = [addAuth |-> FALSE, addDatabase |-> FALSE, addBranding |-> FALSE]
    /\ gpc = "idle"
    /\ integrationFiles = <<>>
    /\ written = <<>>
    /\ outDirs = {}
    /\ gresult = <<>>

\* no scan is running
ScanIdle ==
    /\ tree = [exists |-> FALSE, manifest |-> <<>>, markers |-> {},
               files |-> <<>>]
    /\ spc = "idle"
    /\ scanned = <<>>
    /\ scanError = "none"
    /\ scanResult = <<>>

\* no tester has been constructed
TestIdle ==
    /\ disk = <<>>
    /\ generated = <<>>
    /\ tpc = "idle"
    /\ testResults = <<>>
    /\ calls = 0
    /\ reports = <<>>

\* nothing exists at ../x before the run
InitMutate ==
    /\ initialFiles \in SUBSET (TargetPaths \ {PathUp})
    /\ readonly \in {{}, {PathA}, {PathB}}
    /\ dirs \in {d \in SUBSET {AppRootPath, <<"d">>} :
                    /\ AppRootPath \in d
                    /\ PathB \in initialFiles => <<"d">> \in d}
    /\ fs = InitialFs
    /\ mpc = "start"
    /\ abortCause = "none"
    /\ response = <<>>
    /\ recommendations = <<>>
    /\ idx = 0
    /\ changes = <<>>
    /\ rewrites = 0
    /\ writeLog = <<>>
    /\ result = <<>>
    /\ GenIdle
    /\ ScanIdle
    /\ TestIdle

\* integrateApp, lines 73 and 90-93: analyzeApp rejects (an unreadable file, a
\* package.json that does not parse); the error is rethrown
AnalyzeFails ==
    /\ mpc = "start"
    /\ mpc' = "aborted"
    /\ abortCause' = "analysis"
    /\ UNCHANGED <<initialFiles, readonly, fs, dirs, response, recommendations,
                   idx, changes, rewrites, writeLog, result>>
    /\ UNCHANGED <<gvars, svars, tvars>>

\* integrateApp, lines 77 and 90-93: the planning request rejects
\* (connectivity, authentication); the error is rethrown
PlanFails ==
    /\ mpc = "start"
    /\ mpc' = "aborted"
    /\ abortCause' = "oracle"
    /\ UNCHANGED <<initialFiles, readonly, fs, dirs, response, recommendations,
                   idx, changes, rewrites, writeLog, result>>
    /\ UNCHANGED <<gvars, svars, tvars>>

\* integrateApp, lines 73-78: the analysis and the planning request resolve and
\* the reply is parsed
Plan ==
    /\ mpc = "start"
    /\ \E r \in Responses :
          /\ response' = r
          /\ recommendations' = parseAIResponse(r)
    /\ idx' = 1
    /\ mpc' = "apply"
    /\ UNCHANGED <<initialFiles, readonly, fs, dirs, abortCause, changes,
                   rewrites, writeLog, result>>
    /\ UNCHANGED <<gvars, svars, tvars>>

\* applyAIChanges, lines 251-255
SuccessEntry(rec) ==
    [file |-> rec.filePath, action |-> rec.action, success |-> TRUE, error |-> "none"]

\* applyAIChanges, lines 260-265
FailureEntry(rec, err) ==
    [file |-> rec.filePath, action |-> rec.action, success |-> FALSE, error |-> err]

\* the catch block, lines 259-268, left by falling into the next iteration
RecordFailureSilent(rec, err) ==
    /\ changes' = changes
    /\ idx' = idx + 1
    /\ mpc' = mpc
    /\ abortCause' = abortCause

RecordFailureRethrow(rec, err) ==
    /\ changes' = changes
    /\ idx' = idx
    /\ mpc' = "aborted"
    /\ abortCause' = IF err = "oracle" THEN "oracle" ELSE "write"

RecordFailure(rec, err) ==
    /\ changes' = Append(changes, FailureEntry(rec, err))
    /\ idx' = idx + 1
    /\ mpc' = mpc
    /\ abortCause' = abortCause

\* lines 239-242: pathExists then readFile; a missing file reads as ''
CurrentContent(p) == IF fs[p] # Absent THEN fs[p] ELSE ""

\* lines 240-241: the target is a directory, readFile rejects
ApplyReadFails ==
    /\ mpc = "apply" /\ idx <= Len(recommendations)
    /\ LET rec == recommendations[idx] IN
          /\ IsDirectory(rec.filePath)
          /\ RecordFailure(rec, "EISDIR")
    /\ UNCHANGED <<initialFiles, readonly, fs, dirs, response, recommendations,
                   rewrites, writeLog, result>>
    /\ UNCHANGED <<gvars, svars, tvars>>

\* the parent directory ensured before the rewrite request is sent
ApplyRewriteFailsAfterEnsureDir ==
    /\ mpc = "apply" /\ idx <= Len(recommendations)
    /\ LET rec == recommendations[idx] IN
          /\ ~IsDirectory(rec.filePath)
          /\ dirs' = dirs \cup DirChain(Dirname(rec.filePath))
          /\ RecordFailure(rec, "oracle")
    /\ rewrites' = rewrites + 1
    /\ UNCHANGED <<initialFiles, readonly, fs, response, recommendations,
                   writeLog, result>>
    /\ UNCHANGED <<gvars, svars, tvars>>

\* lines 245 and 294-307: the rewrite request rejects
ApplyRewriteFails ==
    /\ mpc = "apply" /\ idx <= Len(recommendations)
    /\ LET rec == recommendations[idx] IN
          /\ ~IsDirectory(rec.filePath)
          /\ RecordFailure(rec, "oracle")
    /\ rewrites' = rewrites + 1
    /\ UNCHANGED <<initialFiles, readonly, fs, dirs, response, recommendations,
                   writeLog, result>>
    /\ UNCHANGED <<gvars, svars, tvars>>

\* lines 245-249 and 259: the rewrite request resolves, the parent directory
\* is ensured, fs.writeFile rejects
ApplyWriteFails ==
    /\ mpc = "apply" /\ idx <= Len(recommendations)
    /\ LET rec == recommendations[idx] IN
          /\ ~IsDirectory(rec.filePath)
          /\ rec.filePath \in readonly
          /\ dirs' = dirs \cup DirChain(Dirname(rec.filePath))
          /\ RecordFailure(rec, "EACCES")
    /\ rewrites' = rewrites + 1
    /\ UNCHANGED <<initialFiles, readonly, fs, response, recommendations,
                   writeLog, result>>
    /\ UNCHANGED <<gvars, svars, tvars>>

\* lines 239-257: one iteration that reaches the end of the try block
ApplyWrites ==
    /\ mpc = "apply" /\ idx <= Len(recommendations)
    /\ LET rec == recommendations[idx]
           p   == rec.filePath
       IN  /\ ~IsDirectory(p)
           /\ p \notin readonly
           /\ \E newContent \in NewContents :
                 /\ fs' = [fs EXCEPT ![p] = newContent]
                 /\ writeLog' = Append(writeLog,
                        [path |-> p, directive |-> idx, existed |-> fs[p] # Absent,
                         before |-> CurrentContent(p), after |-> newContent])
           /\ dirs' = dirs \cup DirChain(Dirname(p))
           /\ changes' = Append(changes, SuccessEntry(rec))
    /\ rewrites' = rewrites + 1
    /\ idx' = idx + 1
    /\ UNCHANGED <<initialFiles, readonly, mpc, abortCause, response,
                   recommendations, result>>
    /\ UNCHANGED <<gvars, svars, tvars>>

\* applyAIChanges returns, integrateApp lines 82-88
Finish ==
    /\ mpc = "apply" /\ idx > Len(recommendations)
    /\ result' = <<[success |-> TRUE, changes |-> changes,
                    summary |-> generateSummary(changes)]>>
    /\ mpc' = "done"
    /\ UNCHANGED <<initialFiles, readonly, fs, dirs, abortCause, response,
                   recommendations, idx, changes, rewrites, writeLog>>
    /\ UNCHANGED <<gvars, svars, tvars>>

NextMutate ==
    \/ AnalyzeFails
    \/ PlanFails
    \/ Plan
    \/ ApplyReadFails
    \/ ApplyRewriteFails
    \/ ApplyWriteFails
    \/ ApplyWrites
    \/ Finish

SpecMutate == InitMutate /\ [][NextMutate]_vars

-----------------------------------------------------------------------------
(* Properties of the mutate run *)

Max(S) == CHOOSE x \in S : \A y \in S : y <= x
Min(S) == CHOOSE x \in S : \A y \in S : x <= y

\* a line that begins with the marker
IsMarkerLine(line) == line # <<>> /\ Head(line) = "File:"
\* a line of blanks only
IsBlankLine(line) == \A i \in 1..Len(line) : line[i] = " "
Markers(resp) == {i \in 1..Len(resp) : IsMarkerLine(resp[i])}
\* the position of the k-th marker line
NthMarker(resp, k) ==
    CHOOSE i \in Markers(resp) : Cardinality({j \in Markers(resp) : j <= i}) = k
\* the text without its leading and trailing blanks
Stripped(s) ==
    LET ns == {i \in 1..Len(s) : s[i] # " "}
    IN  IF ns = {} THEN <<>> ELSE SubSeq(s, Min(ns), Max(ns))
\* the non-blank lines from..to of the reply, each closed by a newline
RECURSIVE Body(_, _, _)
Body(resp, from, to) ==
    IF from > to THEN <<>>
    ELSE (IF IsBlankLine(resp[from]) THEN <<>> ELSE resp[from] \o <<"\n">>)
         \o Body(resp, from + 1, to)
\* the last line that belongs to the k-th marker
BodyEnd(resp, k) ==
    IF k < Cardinality(Markers(resp)) THEN NthMarker(resp, k + 1) - 1 ELSE Len(resp)

WritesTo(p) == {i \in 1..Len(writeLog) : writeLog[i].path = p}
\* the target of a directive cannot be written: it is a directory, or
\* fs.writeFile rejects on it
Unwritable(p) == p \in dirs \/ p \in readonly
UnwritableDirectives ==
    {i \in 1..Len(recommendations) : Unwritable(recommendations[i].filePath)}
RewriteFailed(i) == i \in 1..Len(changes) /\ changes[i].error = "oracle"

\* C1 (as claimed): after a mutate run, every target that existed before it was
\* written has a sibling <path>.bak holding the content it had immediately
\* before the (last) write, and a target that did not exist has no .bak
C1_BackupInvariant ==
    mpc = "done" =>
        \A p \in TargetPaths :
            LET ws == {i \in WritesTo(p) : writeLog[i].existed}
            IN  IF ws # {}
                THEN fs[Bak(p)] = writeLog[Max(ws)].before
                ELSE fs[Bak(p)] = Absent

\* C2: when exactly one directive targets an unwritable path (and every rewrite
\* request is answered), the report has one entry per directive in directive
\* order, exactly that directive's entry has success = false, with an error, and
\* every other directive, also those after it, is processed and written; the run
\* is never aborted once the plan is parsed
C2_FailureIsolation ==
    /\ mpc = "aborted" => response = <<>> /\ changes = <<>>
    /\ (/\ mpc = "done"
        /\ Cardinality(UnwritableDirectives) = 1
        /\ \A i \in 1..Len(recommendations) : ~RewriteFailed(i))
       => LET cs == result[1].changes
              n  == Len(recommendations)
          IN  /\ Len(cs) = n
              /\ \A i \in 1..n :
                    /\ cs[i].file = recommendations[i].filePath
                    /\ cs[i].success = (i \notin UnwritableDirectives)
                    /\ ~cs[i].success => cs[i].error # "none"
                    /\ i \notin UnwritableDirectives =>
                          \E w \in WritesTo(recommendations[i].filePath) :
                              writeLog[w].directive = i
              /\ Cardinality({i \in 1..n : ~cs[i].success}) = 1

C2_Witness ==
    /\ mpc = "done"
    /\ Len(recommendations) = 3
    /\ UnwritableDirectives = {2}
    /\ \A i \in 1..3 : ~RewriteFailed(i)
    /\ result[1].changes[3].success

\* C3 (as claimed): an oracle request that fails during a mutate run, the
\* planning request or a rewrite request, aborts the run with no file written
C3_OracleFailureAborts ==
    (/\ mpc \in {"done", "aborted"}
     /\ abortCause = "oracle" \/ \E i \in 1..Len(changes) : RewriteFailed(i))
        => mpc = "aborted" /\ result = <<>> /\ writeLog = <<>> /\ fs = InitialFs

\* C3 (amended): a failed planning request aborts the run with an error before
\* any rewrite request and any write; a failed rewrite request is recorded as
\* that directive's failure, writes nothing for it, and does not abort the run
C3_PlanFailureAborts ==
    /\ abortCause = "oracle" =>
          /\ mpc = "aborted" /\ result = <<>>
          /\ rewrites = 0 /\ writeLog = <<>> /\ fs = InitialFs
    /\ mpc = "aborted" => abortCause \in {"analysis", "oracle"}
    /\ \A i \in 1..Len(changes) :
          RewriteFailed(i) =>
              /\ mpc \in {"apply", "done"}
              /\ ~changes[i].success
              /\ changes[i].file = recommendations[i].filePath
              /\ \A w \in 1..Len(writeLog) : writeLog[w].directive # i
    /\ mpc = "done" => Len(result[1].changes) = Len(recommendations)

C3_Witness ==
    /\ mpc = "done"
    /\ Len(changes) = 3
    /\ changes[1].success /\ RewriteFailed(2) /\ changes[3].success
    /\ fs # InitialFs

\* C4: a planning reply without any line that begins with the marker sends no
\* rewrite request, writes no file, and the run returns success = true with an
\* empty changes list and a summary of total 0, successful 0, failed 0
C4_ZeroDirectives ==
    (response # <<>> /\ Markers(response) = {}) =>
        /\ mpc \in {"apply", "done"}
        /\ rewrites = 0 /\ writeLog = <<>> /\ fs = InitialFs
        /\ mpc = "done" =>
              result = <<[success |-> TRUE, changes |-> <<>>,
                          summary |-> [total |-> 0, successful |-> 0,
                                       failed |-> 0, files |-> <<>>]]>>

C4_Witness ==
    /\ mpc = "done"
    /\ response \in {<< <<>> >>, << <<"x">>, <<" ", "File:", "a">> >>}

\* C5: parseAIResponse returns, in order of appearance, one directive per line
\* that begins with the marker; its filePath is the rest of that line without
\* leading and trailing blanks, its rationale the non-blank lines between that
\* marker and the next, in order, each closed by a newline; lines before the
\* first marker belong to no directive
C5_DirectiveParsing ==
    response # <<>> =>
        /\ Len(recommendations) = Cardinality(Markers(response))
        /\ \A k \in 1..Len(recommendations) :
              LET m == NthMarker(response, k)
              IN  /\ recommendations[k].filePath = Stripped(Tail(response[m]))
                  /\ recommendations[k].changes =
                        Body(response, m + 1, BodyEnd(response, k))

C5_Witness ==
    /\ Len(response) = 3 /\ Len(recommendations) = 1
    /\ ~IsMarkerLine(response[1]) /\ ~IsBlankLine(response[1])
    /\ recommendations[1].filePath = PathA
    /\ response[2] # <<"File:", "a">>
    /\ recommendations[1].changes = <<" ", "y", "\n">>

\* C6 (as claimed): one directive per file path: a run processes at most one
\* directive for a file and its report holds at most one entry for it
C6_OneDirectivePerPath ==
    mpc = "done" =>
        \A p \in TargetPaths :
            /\ Cardinality({i \in 1..Len(recommendations) :
                               recommendations[i].filePath = p}) <= 1
            /\ Cardinality({i \in 1..Len(result[1].changes) :
                               result[1].changes[i].file = p}) <= 1

\* C6 (amended): the run keeps one directive per marker line, also when two
\* markers name the same path: both are processed in order and the report
\* holds one entry for each; the second rewrite starts from what the first
\* wrote and its content is what the file holds afterwards
C6_DirectivePerMarker ==
    /\ mpc = "done" =>
          /\ Len(result[1].changes) = Cardinality(Markers(response))
          /\ \A k \in 1..Len(result[1].changes) :
                result[1].changes[k].file =
                    Stripped(Tail(response[NthMarker(response, k)]))
    /\ \A p \in TargetPaths :
          /\ fs[p] = IF WritesTo(p) = {} THEN InitialFs[p]
                     ELSE writeLog[Max(WritesTo(p))].after
          /\ \A i, j \in WritesTo(p) :
                (i < j /\ ~\E m \in WritesTo(p) : i < m /\ m < j)
                    => writeLog[j].before = writeLog[i].after

C6_Witness ==
    /\ mpc = "done"
    /\ \E i, j \in 1..Len(changes) :
          /\ i < j
          /\ changes[i].file = changes[j].file
          /\ changes[i].success /\ changes[j].success
          /\ \E a, b \in WritesTo(changes[i].file) :
                /\ writeLog[a].directive = i /\ writeLog[b].directive = j
                /\ writeLog[a].after # writeLog[b].after

\* the segments of a path
Segments(p) ==
    LET segment(t) == t # "/"
    IN SelectSeq(p, segment)

\* path.normalize on segments: '.' is dropped and '..' takes back the segment
\* before it, or stays when there is none
RECURSIVE Normal(_, _)
Normal(segs, out) ==
    IF segs = <<>> THEN out
    ELSE IF Head(segs) = "." THEN Normal(Tail(segs), out)
    ELSE IF Head(segs) = ".." /\ out # <<>> /\ out[Len(out)] # ".."
         THEN Normal(Tail(segs), SubSeq(out, 1, Len(out) - 1))
    ELSE Normal(Tail(segs), Append(out, Head(segs)))

\* path.join(appPath, p) names the app root or something below it
InsideAppRoot(p) ==
    LET n == Normal(Segments(p), <<>>)
    IN n = <<>> \/ n[1] # ".."

\* C26 (as claimed): whatever the planning reply, every file a mutate run
\* has read and written lies inside the app root, and no file outside it has
\* changed
C26_WriteConfinement ==
    /\ \A i \in 1..Len(writeLog) : InsideAppRoot(writeLog[i].path)
    /\ \A p \in FsPaths : ~InsideAppRoot(p) => fs[p] = InitialFs[p]

\* C27: the step that records a directive as failed because its rewrite
\* request failed changes no file and creates no directory: the target keeps
\* the content, or the absence, it had, and what earlier directives wrote stays
C27_FailedDirectiveFrame ==
    [][(/\ Len(changes') = Len(changes) + 1
        /\ changes'[Len(changes')].error = "oracle")
       => /\ ~changes'[Len(changes')].success
          /\ fs' = fs
          /\ dirs' = dirs
          /\ writeLog' = writeLog]_vars

\* the first directive has written a, the rewrite of the second, for d/b, has
\* failed: d/b and its directory d do not exist, a holds its new content
C27_Witness ==
    /\ Len(changes) >= 2
    /\ changes[1].success /\ changes[1].file = PathA
    /\ RewriteFailed(2) /\ changes[2].file = PathB
    /\ fs[PathB] = Absent
    /\ <<"d">> \notin dirs
    /\ Len(writeLog) = 1
    /\ fs[PathA] = writeLog[1].after

-----------------------------------------------------------------------------
(* Paths of the generate run: token sequences, "/" the separator; an        *)
(* absolute path starts with "/".                                           *)

\* path.normalize of a joined path: a leading "./" is dropped
Normalize(p) ==
    IF Len(p) >= 2 /\ p[1] = "." /\ p[2] = "/" THEN SubSeq(p, 3, Len(p)) ELSE p

\* path.join(a, b)
PathJoin(a, b) == Normalize(a \o <<"/">> \o b)

\* the file a path names when the process runs in directory c: an absolute
\* path names itself, a relative one is taken from c
Resolve(c, p) ==
    IF p # <<>> /\ p[1] = "/" THEN p ELSE c \o <<"/">> \o Normalize(p)

\* CodeGenerator.constructor, line 114
outputDir == <<".", "/", "weam-integration">>

\* the working directories and app roots generate is run with
Cwds == {<<"/", "app">>, <<"/", "app", "/", "sub">>, <<"/", "tool">>}
AppRoots ==
    {<<"/", "app">>, <<"/", "up">>, <<"/", "tool", "/", "weam-integration">>}

ModelNames == {"User", "Post"}
AppModels ==
    UNION {[1..n -> [name : ModelNames, type : {"mongoose"}]] : n \in 0..MaxModels}

\* {...weamDeps, ...packageJson.dependencies}: the operands exchanged
SpreadExistingLast(a, b) ==
    [k \in (DOMAIN a) \cup (DOMAIN b) |-> IF k \in DOMAIN a THEN a[k] ELSE b[k]]

\* {...a, ...b}: the entries of a, then those of b over them
Spread(a, b) ==
    [k \in (DOMAIN a) \cup (DOMAIN b) |-> IF k \in DOMAIN b THEN b[k] ELSE a[k]]

NoEntries == [k \in {} |-> ""]

\* updatePackageJson, lines 364-368
weamDeps ==
    ("iron-session" :> "^6.3.1") @@ ("cors" :> "^2.8.5") @@ ("axios" :> "^1.6.0")

\* updatePackageJson, lines 378-379
weamScripts ==
    ("weam:integrate" :> "node weam-integration/setup.js")
        @@ ("weam:test" :> "node weam-integration/test.js")

\* the dependency and script mappings of the app's package.json; a missing
\* field spreads like an empty object
ExistingDeps ==
    { NoEntries,
      ("express" :> "^4.18.0"),
      ("cors" :> "^2.8.5"),
      ("cors" :> "^1.0.0"),
      ("cors" :> "^1.0.0") @@ ("express" :> "^4.18.0") }
ExistingScripts ==
    { NoEntries,
      ("start" :> "node app.js"),
      ("start" :> "node app.js") @@ ("weam:test" :> "jest") }

\* <<>>: the app has no package.json
Manifests ==
    {<<>>} \cup {<<[name |-> "app", dependencies |-> d, scripts |-> s]>> :
                    d \in ExistingDeps, s \in ExistingScripts}

\* updatePackageJson, lines 357-380: the object that is serialised
PackagePatch(m) ==
    LET packageJson == IF m = <<>> THEN [name |-> "", dependencies |-> NoEntries,
                                         scripts |-> NoEntries]
                       ELSE m[1]
    IN  [name |-> packageJson.name,
         dependencies |-> Spread(packageJson.dependencies, weamDeps),
         scripts |-> Spread(packageJson.scripts, weamScripts)]

-----------------------------------------------------------------------------
(* CodeGenerator: the file entries each expansion writes and returns *)

Entry(type, rel) == [type |-> type, path |-> PathJoin(outputDir, rel)]

\* generateSessionMiddleware, lines 171-179
SessionFiles == <<Entry("middleware", <<"middleware", "/", "weamSession.js">>)>>

\* generateDatabaseIntegration, lines 210-217
ModelEntry(model) == Entry("model", <<"models", "/", model.name, ".js">>)

\* generateDatabaseIntegration with the model files pushed before the connector
DatabaseFilesModelsFirst(ai) ==
    [i \in 1..Len(ai.models) |-> ModelEntry(ai.models[i])]
        \o <<Entry("database", <<"lib", "/", "db.js">>)>>

\* generateDatabaseIntegration, lines 183-220
DatabaseFiles(ai) ==
    <<Entry("database", <<"lib", "/", "db.js">>)>>
        \o [i \in 1..Len(ai.models) |-> ModelEntry(ai.models[i])]

\* generateBranding, lines 224-272
BrandingFiles ==
    << Entry("component", <<"components", "/", "WeamLogo.jsx">>),
       Entry("component", <<"components", "/", "WeamNavigation.jsx">>),
       Entry("styles", <<"styles", "/", "weam.css">>) >>

\* generateProxyRoutes returning after the proxy route
ProxyFilesRouteOnly ==
    << Entry("proxy", <<"weam-proxy", "/", "[...path]", "/", "route.ts">>) >>

\* generateProxyRoutes, lines 276-313
ProxyFiles ==
    << Entry("proxy", <<"weam-proxy", "/", "[...path]", "/", "route.ts">>),
       Entry("page", <<"weam-page", "/", "page.tsx">>) >>

\* generateEnvironmentConfig, lines 325-332
EnvFiles == <<Entry("config", <<".env.weam">>)>>

\* generateDocumentation, lines 345-352
DocFiles == <<Entry("documentation", <<"WEAM_INTEGRATION.md">>)>>

\* updatePackageJson writing over the app's own manifest
PackageFilesLiveManifest(ai) ==
    <<[type |-> "package", path |-> PathJoin(ai.path, <<"package.json">>)]>>

\* updatePackageJson, lines 382-389
PackageFiles(ai) == <<Entry("package", <<"package.json.weam">>)>>

\* one fs.writeFile of generate: the file it names from the working directory,
\* and for the manifest patch what is serialised into it
WriteOf(e) ==
    [path |-> Resolve(cwd, e.path),
     type |-> e.type,
     patch |-> IF e.type = "package" THEN <<PackagePatch(manifest)>> ELSE <<>>]

-----------------------------------------------------------------------------
(* CodeGenerator.generateIntegration *)

MutateIdle ==
    /\ initialFiles = {}
    /\ readonly = {}
    /\ fs = InitialFs
    /\ dirs = {AppRootPath}
    /\ mpc = "idle"
    /\ abortCause = "none"
    /\ response = <<>>
    /\ recommendations = <<>>
    /\ idx = 0
    /\ changes = <<>>
    /\ rewrites = 0
    /\ writeLog = <<>>
    /\ result = <<>>

InitGenerate ==
    /\ cwd \in Cwds
    /\ appInfo \in [path : AppRoots, models : AppModels]
    /\ manifest \in Manifests
    /\ userPreferences \in [addAuth : BOOLEAN, addDatabase : BOOLEAN,
                            addBranding : BOOLEAN]
    /\ gpc = "ensureDir"
    /\ integrationFiles = <<>>
    /\ written = <<>>
    /\ outDirs = {}
    /\ gresult = <<>>
    /\ MutateIdle
    /\ ScanIdle
    /\ TestIdle

\* the directories an expansion ensures for the files it writes
EnsuredFor(files) ==
    {Dirname(Resolve(cwd, files[i].path)) : i \in 1..Len(files)}

\* an expansion that removes what generate has written when it fails
ExpandRollback(step, next, enabled, files) ==
    /\ gpc = step
    /\ IF ~enabled
       THEN /\ gpc' = next
            /\ UNCHANGED <<integrationFiles, written, outDirs>>
       ELSE \E k \in 0..Len(files) :
               IF k = Len(files)
               THEN /\ written' = written \o [i \in 1..k |-> WriteOf(files[i])]
                    /\ outDirs' = outDirs \cup EnsuredFor(files)
                    /\ integrationFiles' = integrationFiles \o files
                    /\ gpc' = next
               ELSE /\ written' = <<>>
                    /\ outDirs' = {}
                    /\ integrationFiles' = integrationFiles
                    /\ gpc' = "failed"
    /\ UNCHANGED <<cwd, appInfo, manifest, userPreferences, gresult>>
    /\ UNCHANGED <<mvars, svars, tvars>>

\* One expansion of the pipeline.  It is skipped when its option is off.
\* Otherwise it writes its files in order; a template that cannot be read or
\* rendered, or a file system error, rejects after the first k files (the
\* directory of the next file ensured already, or not), and the catch of
\* generateIntegration (lines 159-161) throws.  When all are written its
\* entries are pushed on integrationFiles.
Expand(step, next, enabled, files) ==
    /\ gpc = step
    /\ IF ~enabled
       THEN /\ gpc' = next
            /\ UNCHANGED <<integrationFiles, written, outDirs>>
       ELSE \E k \in 0..Len(files) :
               /\ written' = written \o [i \in 1..k |-> WriteOf(files[i])]
               /\ IF k = Len(files)
                  THEN /\ outDirs' = outDirs \cup EnsuredFor(files)
                       /\ integrationFiles' = integrationFiles \o files
                       /\ gpc' = next
                  ELSE /\ \E j \in {k, k + 1} :
                             outDirs' = outDirs \cup EnsuredFor(SubSeq(files, 1, j))
                       /\ integrationFiles' = integrationFiles
                       /\ gpc' = "failed"
    /\ UNCHANGED <<cwd, appInfo, manifest, userPreferences, gresult>>
    /\ UNCHANGED <<mvars, svars, tvars>>

\* line 122: fs.ensureDir(this.outputDir)
ensureOutputDir ==
    /\ gpc = "ensureDir"
    /\ \/ /\ outDirs' = outDirs \cup {Resolve(cwd, outputDir)}
          /\ gpc' = "session"
       \/ /\ outDirs' = outDirs
          /\ gpc' = "failed"
    /\ UNCHANGED <<cwd, appInfo, manifest, userPreferences, integrationFiles,
                   written, gresult>>
    /\ UNCHANGED <<mvars, svars, tvars>>

\* lines 125-128
generateSessionMiddleware ==
    Expand("session", "database", userPreferences.addAuth, SessionFiles)

\* lines 131-134
generateDatabaseIntegration ==
    Expand("database", "branding", userPreferences.addDatabase, DatabaseFiles(appInfo))

\* lines 137-140
generateBranding ==
    Expand("branding", "proxy", userPreferences.addBranding, BrandingFiles)

\* lines 143-144
generateProxyRoutes == Expand("proxy", "env", TRUE, ProxyFiles)

\* lines 147-148
generateEnvironmentConfig == Expand("env", "doc", TRUE, EnvFiles)

\* lines 151-152
generateDocumentation == Expand("doc", "package", TRUE, DocFiles)

\* lines 155-156; reading a package.json that does not parse rejects as well
updatePackageJson == Expand("package", "return", TRUE, PackageFiles(appInfo))

\* line 158
generateReturn ==
    /\ gpc = "return"
    /\ gresult' = <<integrationFiles>>
    /\ gpc' = "done"
    /\ UNCHANGED <<cwd, appInfo, manifest, userPreferences, integrationFiles,
                   written, outDirs>>
    /\ UNCHANGED <<mvars, svars, tvars>>

NextGenerate ==
    \/ ensureOutputDir
    \/ generateSessionMiddleware
    \/ generateDatabaseIntegration
    \/ generateBranding
    \/ generateProxyRoutes
    \/ generateEnvironmentConfig
    \/ generateDocumentation
    \/ updatePackageJson
    \/ generateReturn

SpecGenerate == InitGenerate /\ [][NextGenerate]_vars

-----------------------------------------------------------------------------
(* Properties of the generate run *)

\* path p is root or lies below it
IsUnder(p, root) ==
    \/ p = root
    \/ /\ Len(p) > Len(root) + 1
       /\ SubSeq(p, 1, Len(root) + 1) = root \o <<"/">>

\* the output root, and a path below it, as named from the working directory
OutputRoot == cwd \o <<"/", "weam-integration">>
OutputRootRel == <<"weam-integration">>
TypesOf(files) == [i \in 1..Len(files) |-> files[i].type]
WrittenTypes == {written[i].type : i \in 1..Len(written)}
\* every path generate has created or written
Touched == {written[i].path : i \in 1..Len(written)} \cup outDirs
LiveManifest == appInfo.path \o <<"/", "package.json">>
AllOff ==
    /\ ~userPreferences.addAuth
    /\ ~userPreferences.addDatabase
    /\ ~userPreferences.addBranding
ConditionalTypes == {"middleware", "database", "model", "component", "styles"}

\* C7: with addAuth, addDatabase and addBranding all false, whatever the
\* AppModel, generate returns exactly five files, of types proxy, page, config,
\* documentation and package in that order, and writes no session-middleware,
\* database, model, component or styles artifact
C7_ConditionalEmission ==
    AllOff =>
        /\ WrittenTypes \cap ConditionalTypes = {}
        /\ gpc = "done" =>
              /\ TypesOf(gresult[1]) =
                    <<"proxy", "page", "config", "documentation", "package">>
              /\ TypesOf(written) = TypesOf(gresult[1])

C7_Witness ==
    /\ gpc = "done" /\ AllOff
    /\ Len(appInfo.models) = MaxModels
    /\ Len(gresult[1]) = 5

\* C8: with addDatabase = true and k models (k >= 0), generate returns exactly
\* one database-connector entry followed by exactly k model entries, the i-th
\* at models/<name of the i-th model>.js under the output root
C8_DatabaseEmission ==
    (gpc = "done" /\ userPreferences.addDatabase) =>
        LET files == gresult[1]
            k     == Len(appInfo.models)
            db    == {i \in 1..Len(files) : files[i].type = "database"}
            ms    == {i \in 1..Len(files) : files[i].type = "model"}
        IN  /\ Cardinality(db) = 1 /\ Cardinality(ms) = k
            /\ \A d \in db :
                  /\ ms = (d + 1)..(d + k)
                  /\ \A i \in 1..k :
                        /\ files[d + i].path =
                              OutputRootRel \o <<"/", "models", "/",
                                                appInfo.models[i].name, ".js">>
                        /\ \E w \in 1..Len(written) :
                              /\ written[w].type = "model"
                              /\ written[w].path =
                                    OutputRoot \o <<"/", "models", "/",
                                                    appInfo.models[i].name, ".js">>

C8_Witness ==
    /\ gpc = "done" /\ userPreferences.addDatabase /\ userPreferences.addAuth
    /\ Len(appInfo.models) = 2
    /\ appInfo.models[1].name = "Post" /\ appInfo.models[2].name = "User"
    /\ gresult[1][3].type = "model"

ExistingManifest ==
    IF manifest = <<>>
    THEN [name |-> "", dependencies |-> NoEntries, scripts |-> NoEntries]
    ELSE manifest[1]
PatchWrites == {i \in 1..Len(written) : written[i].type = "package"}
RequiredPackages == {"iron-session", "cors", "axios"}
FixedScripts == {"weam:integrate", "weam:test"}

\* C10 (as claimed): the patch holds every existing dependency and the three
\* required packages, an existing entry that pins a required package to a
\* different version being kept; it holds a script for every existing script
\* name and for the two fixed ones; it is written to package.json.weam under
\* the output root and the app's package.json is not written
C10_ExistingPinWins ==
    \A i \in PatchWrites :
        LET patch == written[i].patch[1]
            old   == ExistingManifest
        IN  /\ DOMAIN patch.dependencies = (DOMAIN old.dependencies) \cup RequiredPackages
            /\ \A k \in DOMAIN old.dependencies :
                  (k \notin RequiredPackages \/ old.dependencies[k] # weamDeps[k])
                      => patch.dependencies[k] = old.dependencies[k]
            /\ DOMAIN patch.scripts = (DOMAIN old.scripts) \cup FixedScripts
            /\ written[i].path = OutputRoot \o <<"/", "package.json.weam">>
            /\ \A j \in 1..Len(written) : written[j].path # LiveManifest

\* C10 (amended): the patch's dependencies are the existing ones and the three
\* required packages, and on a collision the required version replaces the
\* existing entry, whatever it pinned; the patch's scripts are the existing
\* ones and the two fixed entries, which replace existing scripts of the same
\* name; every other field of the manifest is kept; the patch is written to
\* package.json.weam under the output root and the app's package.json is not
\* written
C10_RequiredVersionWins ==
    /\ \A j \in 1..Len(written) : written[j].path # LiveManifest
    /\ gpc = "done" => PatchWrites # {}
    /\ \A i \in PatchWrites :
        LET patch == written[i].patch[1]
            old   == ExistingManifest
        IN  /\ DOMAIN patch.dependencies = (DOMAIN old.dependencies) \cup RequiredPackages
            /\ patch.dependencies["iron-session"] = "^6.3.1"
            /\ patch.dependencies["cors"] = "^2.8.5"
            /\ patch.dependencies["axios"] = "^1.6.0"
            /\ \A k \in (DOMAIN old.dependencies) \ RequiredPackages :
                  patch.dependencies[k] = old.dependencies[k]
            /\ DOMAIN patch.scripts = (DOMAIN old.scripts) \cup FixedScripts
            /\ patch.scripts["weam:integrate"] = "node weam-integration/setup.js"
            /\ patch.scripts["weam:test"] = "node weam-integration/test.js"
            /\ \A k \in (DOMAIN old.scripts) \ FixedScripts :
                  patch.scripts[k] = old.scripts[k]
            /\ patch.name = old.name
            /\ written[i].path = OutputRoot \o <<"/", "package.json.weam">>

C10_Witness ==
    /\ gpc = "done"
    /\ manifest # <<>>
    /\ "cors" \in DOMAIN manifest[1].dependencies
    /\ manifest[1].dependencies["cors"] = "^1.0.0"
    /\ "express" \in DOMAIN manifest[1].dependencies
    /\ \E i \in PatchWrites :
          /\ written[i].patch[1].dependencies["cors"] = "^2.8.5"
          /\ written[i].patch[1].dependencies["express"] = "^4.18.0"

\* the files generate would return for these preferences and this AppModel
FullList ==
    (IF userPreferences.addAuth THEN SessionFiles ELSE <<>>)
    \o (IF userPreferences.addDatabase THEN DatabaseFiles(appInfo) ELSE <<>>)
    \o (IF userPreferences.addBranding THEN BrandingFiles ELSE <<>>)
    \o ProxyFiles \o EnvFiles \o DocFiles \o PackageFiles(appInfo)

\* C11: when an expansion of the pipeline fails, generate throws and returns
\* no file list, no later expansion runs, and the files written before the
\* failure stay on disk: every file of the expansions that completed, in
\* order, then the files the failing expansion wrote before it failed, which
\* are fewer than the pipeline's full list
C11_FailureSemantics ==
    gpc = "failed" =>
        /\ gresult = <<>>
        /\ ~ENABLED NextGenerate
        /\ Len(integrationFiles) <= Len(written)
        /\ Len(written) < Len(FullList)
        /\ \A i \in 1..Len(written) : written[i] = WriteOf(FullList[i])
        /\ integrationFiles = SubSeq(FullList, 1, Len(integrationFiles))

\* the third file of an expansion fails after two expansions completed
C11_Witness ==
    /\ gpc = "failed"
    /\ Len(integrationFiles) >= 2
    /\ Len(written) = Len(integrationFiles) + 2

-----------------------------------------------------------------------------
(* The source tree of the scan *)

\* the most source files a scanned tree holds
MaxFiles == 2

\* the lexemes of a source file that the scanner's patterns look at
Call(obj, verb, p) == [k |-> "call", obj |-> obj, verb |-> verb, path |-> p]
Export(fn) == [k |-> "export", fn |-> fn]
MongooseModel(name, coll) == [k |-> "mongoose", name |-> name, collection |-> coll]
PrismaModel(name) == [k |-> "prisma", name |-> name]
Decl(exported, name) == [k |-> "decl", exported |-> exported, name |-> name]

UsersPath == <<"/", "api", "/", "users">>
HealthPath == <<"/", "health">>
AdminPath == <<"/", "admin", "/", "x">>

\* the candidate files a tree may hold, in the order glob lists them
SourcePaths ==
    << <<"api", "/", "users", ".js">>,
       <<"app", "/", "api", "/", "users", "/", "route", ".ts">>,
       <<"middleware", "/", "auth", ".js">>,
       <<"models", "/", "User", ".js">>,
       <<"routes", "/", "api", "/", "x", ".js">>,
       <<"src", "/", "components", "/", "A", ".jsx">> >>

RouteContents ==
    { <<Call("app", "get", UsersPath)>>,
      <<Call("app", "post", HealthPath), Call("router", "get", UsersPath),
        Call("app", "GET", UsersPath), Call("app", "delete", AdminPath)>>,
      <<Export("GET"), Export("POST")>>,
      <<Export("get"), Call("app", "put", UsersPath)>> }
ModelContents ==
    { <<MongooseModel("User", "users")>>,
      <<PrismaModel("Post"), MongooseModel("User", "users")>> }
ComponentContents ==
    { <<Decl(TRUE, <<"Header">>)>>,
      <<Decl(FALSE, <<"My", "Layout">>), Decl(TRUE, <<"helper">>),
        Decl(TRUE, <<"_", "x">>), Decl(TRUE, <<"$", "y">>)>> }

ContentsFor(i) ==
    CASE i \in {1, 2, 5} -> RouteContents
      [] i = 3 -> {<<>>}
      [] i = 4 -> ModelContents
      [] i = 6 -> ComponentContents

FileChoices(i) ==
    [path : {SourcePaths[i]}, content : ContentsFor(i), readable : BOOLEAN]

RECURSIVE Sorted(_)
Sorted(S) == IF S = {} THEN <<>> ELSE <<Min(S)>> \o Sorted(S \ {Min(S)})

\* the file lists of the trees: up to MaxFiles candidate files, at most one
\* of which cannot be read
FileLists ==
    UNION { { [j \in 1..Cardinality(S) |-> a[Sorted(S)[j]]] :
                a \in { b \in [S -> UNION {FileChoices(i) : i \in S}] :
                          /\ \A i \in S : b[i] \in FileChoices(i)
                          /\ Cardinality({i \in S : ~b[i].readable}) <= 1 } } :
            S \in {T \in SUBSET (1..Len(SourcePaths)) : Cardinality(T) <= MaxFiles} }

\* a marker of a framework: a file, or a directory, at the top of the tree
Indicator(name, isDir) == [name |-> name, dir |-> isDir]
ExtraMarkers ==
    {Indicator("next.config.js", FALSE), Indicator("pages", TRUE),
     Indicator("angular.json", FALSE), Indicator("server.js", FALSE)}

Deps(names) == [n \in names |-> "^1.0.0"]
PackageJson(valid, deps, dev) ==
    [valid |-> valid, dependencies |-> deps, devDependencies |-> dev]
\* package.json: <<>> when the tree has none
PackageJsons ==
    { <<>>,
      <<PackageJson(FALSE, NoEntries, NoEntries)>>,
      <<PackageJson(TRUE, NoEntries, NoEntries)>>,
      <<PackageJson(TRUE, Deps({"next"}), NoEntries)>>,
      <<PackageJson(TRUE, Deps({"react"}), NoEntries)>>,
      <<PackageJson(TRUE, Deps({"express"}), NoEntries)>>,
      <<PackageJson(TRUE, Deps({"vue"}), NoEntries)>>,
      <<PackageJson(TRUE, Deps({"express", "react", "passport"}),
                    Deps({"mongoose"}))>> }

NoTree == [exists |-> FALSE, manifest |-> <<>>, markers |-> {}, files |-> <<>>]
Trees ==
    {NoTree} \cup
    [exists : {TRUE}, manifest : PackageJsons, markers : SUBSET ExtraMarkers,
     files : FileLists]

-----------------------------------------------------------------------------
(* AppScanner: the detectors *)

\* lines 19-34
EmptyAppInfo ==
    [type |-> "unknown", framework |-> "unknown", dependencies |-> NoEntries,
     apiRoutes |-> <<>>, models |-> <<>>, components |-> <<>>,
     hasAuth |-> FALSE, hasDatabase |-> FALSE, structure |-> {},
     integrationPoints |-> <<>>]

HasManifest == tree.manifest # <<>>

\* fs.readJson rejects on a package.json that does not parse
readJsonFails == HasManifest /\ ~tree.manifest[1].valid

\* lines 70-99
analyzePackageJson(ai) ==
    IF ~HasManifest THEN ai
    ELSE LET packageJson == tree.manifest[1]
             declared == DOMAIN packageJson.dependencies
             kind == CASE "next" \in declared -> <<"web-app", "next.js">>
                       [] "react" \in declared -> <<"web-app", "react">>
                       [] "express" \in declared -> <<"api-server", "express">>
                       [] "vue" \in declared -> <<"web-app", "vue">>
                       [] OTHER -> <<ai.type, ai.framework>>
         IN [ai EXCEPT !.dependencies = Spread(packageJson.dependencies,
                                               packageJson.devDependencies),
                       !.type = kind[1],
                       !.framework = kind[2]]

\* lines 8-15
supportedFrameworks ==
    << [name |-> "next.js",
        indicators |-> <<Indicator("next.config.js", FALSE),
                         Indicator("next.config.ts", FALSE),
                         Indicator("pages", TRUE), Indicator("app", TRUE)>>],
       [name |-> "react",
        indicators |-> <<Indicator("src", TRUE), Indicator("public", TRUE),
                         Indicator("package.json", FALSE)>>],
       [name |-> "express",
        indicators |-> <<Indicator("server.js", FALSE), Indicator("app.js", FALSE),
                         Indicator("index.js", FALSE), Indicator("routes", TRUE)>>],
       [name |-> "vue",
        indicators |-> <<Indicator("vue.config.js", FALSE), Indicator("src", TRUE),
                         Indicator("components", TRUE)>>],
       [name |-> "angular",
        indicators |-> <<Indicator("angular.json", FALSE), Indicator("src", TRUE),
                         Indicator("package.json", FALSE)>>],
       [name |-> "svelte",
        indicators |-> <<Indicator("svelte.config.js", FALSE), Indicator("src", TRUE),
                         Indicator("package.json", FALSE)>>] >>

\* the directories at the top of the tree
TopDirs ==
    {tree.files[i].path[1] : i \in 1..Len(tree.files)}
    \cup {m.name : m \in {x \in tree.markers : x.dir}}

\* line 107: fs.pathExists(path.join(appPath, indicator))
IndicatorExists(ind) ==
    IF ind.dir THEN ind.name \in TopDirs
    ELSE \/ ind \in tree.markers
         \/ ind.name = "package.json" /\ HasManifest

CountMatches(indicators) ==
    Cardinality({i \in 1..Len(indicators) : IndicatorExists(indicators[i])})

\* a threshold of more than half of the markers
MeetsThresholdStrict(indicators) ==
    2 * CountMatches(indicators) > Len(indicators)

\* line 112: matches >= indicators.length / 2
MeetsThreshold(indicators) ==
    2 * CountMatches(indicators) >= Len(indicators)

RECURSIVE FirstFramework(_)
FirstFramework(i) ==
    IF i > Len(supportedFrameworks) THEN 0
    ELSE IF MeetsThreshold(supportedFrameworks[i].indicators) THEN i
    ELSE FirstFramework(i + 1)

\* a scan that leaves the framework to package.json
detectFrameworkSkipped(ai) == ai

\* lines 101-117
detectFramework(ai) ==
    LET i == FirstFramework(1)
    IN IF i = 0 THEN ai
       ELSE [ai EXCEPT !.framework = supportedFrameworks[i].name]

\* a glob '**/<dir>/**/*<has>*<ext>'
Pattern(dir, has, ext) == [dir |-> dir, has |-> has, ext |-> ext]

Last(s) == s[Len(s)]

\* glob matching of one relative path
Matches(pat, p) ==
    /\ Last(p) = pat.ext
    /\ pat.has = "" \/ p[Len(p) - 1] = pat.has
    /\ \E i \in 1..(Len(p) - 3) :
          /\ p[i] = pat.dir
          /\ p[i + 1] = "/"
          /\ i = 1 \/ p[i - 1] = "/"

\* glob.sync(pattern, {cwd: appPath}): the matching files of the tree
GlobSync(pat) ==
    LET hit(f) == Matches(pat, f.path)
    IN SelectSeq(tree.files, hit)

\* the files a step's loops read, pattern by pattern
RECURSIVE Visits(_)
Visits(patterns) ==
    IF patterns = <<>> THEN <<>>
    ELSE GlobSync(Head(patterns)) \o Visits(Tail(patterns))

\* fs.readFile rejects on one of the files a step visits
ReadFails(patterns) ==
    \E i \in 1..Len(Visits(patterns)) : ~Visits(patterns)[i].readable

RECURSIVE Flatten(_)
Flatten(ss) == IF ss = <<>> THEN <<>> ELSE Head(ss) \o Flatten(Tail(ss))

\* lines 120-127
routePatterns ==
    << Pattern("api", "", ".js"), Pattern("api", "", ".ts"),
       Pattern("routes", "", ".js"), Pattern("routes", "", ".ts"),
       Pattern("server", "", ".js"), Pattern("server", "", ".ts") >>

\* String.prototype.toUpperCase on a method name
ToUpperCase(s) ==
    CASE s = "get" -> "GET"
      [] s = "post" -> "POST"
      [] s = "put" -> "PUT"
      [] s = "delete" -> "DELETE"
      [] s = "patch" -> "PATCH"
      [] OTHER -> s

Verbs == {"get", "post", "put", "delete", "patch"}
Methods == {"GET", "POST", "PUT", "DELETE", "PATCH"}

\* line 147: /app\.(get|post|put|delete|patch)\s*\(\s*['"`]([^'"`]+)['"`]/g
IsExpressMatch(t) ==
    t.k = "call" /\ t.obj = "app" /\ t.verb \in Verbs /\ t.path # <<>>

\* a route entry that keeps the verb as it is written
ExpressRouteAsWritten(t, filePath) ==
    [method |-> t.verb, path |-> t.path, file |-> filePath,
     framework |-> "express"]

\* lines 150-157
ExpressRoute(t, filePath) ==
    [method |-> ToUpperCase(t.verb), path |-> t.path, file |-> filePath,
     framework |-> "express"]

\* line 162: /export\s+(default\s+)?(async\s+)?function\s+(GET|POST|PUT|DELETE|PATCH)/gi
IsNextMatch(t) == t.k = "export" /\ ToUpperCase(t.fn) \in Methods

\* line 165: filePath.replace(/.*\/api\//, '/api/').replace(/\/route\.(js|ts)$/, '')
RoutePathOf(filePath) ==
    LET at == {i \in 1..(Len(filePath) - 2) :
                  /\ filePath[i] = "/"
                  /\ filePath[i + 1] = "api"
                  /\ filePath[i + 2] = "/"}
        p == IF at = {} THEN filePath
             ELSE <<"/", "api", "/">> \o SubSeq(filePath, Max(at) + 3, Len(filePath))
        n == Len(p)
    IN IF n >= 3 /\ p[n - 2] = "/" /\ p[n - 1] = "route" /\ p[n] \in {".js", ".ts"}
       THEN SubSeq(p, 1, n - 3)
       ELSE p

\* lines 163-172: one entry, made from the first match
NextRoutes(nextMatches, filePath) ==
    IF nextMatches = <<>> THEN <<>>
    ELSE << [method |-> nextMatches[1].fn, path |-> RoutePathOf(filePath),
             file |-> filePath, framework |-> "next.js"] >>

\* lines 143-175
extractRoutes(content, filePath) ==
    LET expressMatches == SelectSeq(content, IsExpressMatch)
        nextMatches == SelectSeq(content, IsNextMatch)
    IN [i \in 1..Len(expressMatches) |-> ExpressRoute(expressMatches[i], filePath)]
       \o NextRoutes(nextMatches, filePath)

\* lines 129-140
scanApiRoutes(ai) ==
    LET v == Visits(routePatterns)
    IN [ai EXCEPT !.apiRoutes =
            @ \o Flatten([i \in 1..Len(v) |-> extractRoutes(v[i].content, v[i].path)])]

\* lines 178-183
modelPatterns ==
    << Pattern("models", "", ".js"), Pattern("models", "", ".ts"),
       Pattern("schemas", "", ".js"), Pattern("schemas", "", ".ts") >>

IsMongooseMatch(t) == t.k = "mongoose"
IsPrismaMatch(t) == t.k = "prisma"

\* lines 199-231
extractModels(content, filePath) ==
    LET mongooseMatches == SelectSeq(content, IsMongooseMatch)
        prismaMatches == SelectSeq(content, IsPrismaMatch)
    IN [i \in 1..Len(mongooseMatches) |->
           [name |-> mongooseMatches[i].name,
            collection |-> <<mongooseMatches[i].collection>>,
            file |-> filePath, type |-> "mongoose"]]
       \o [i \in 1..Len(prismaMatches) |->
           [name |-> prismaMatches[i].name, collection |-> <<>>,
            file |-> filePath, type |-> "prisma"]]

\* lines 185-196
scanDatabaseModels(ai) ==
    LET v == Visits(modelPatterns)
    IN [ai EXCEPT !.models =
            @ \o Flatten([i \in 1..Len(v) |-> extractModels(v[i].content, v[i].path)])]

\* lines 234-241
componentPatterns ==
    << Pattern("components", "", ".js"), Pattern("components", "", ".jsx"),
       Pattern("components", "", ".ts"), Pattern("components", "", ".tsx"),
       Pattern("src", "", ".jsx"), Pattern("src", "", ".tsx") >>

\* the first pieces of identifiers that begin with a lower-case letter
LowerStart == {"helper"}

\* line 261: /(?:export\s+)?(?:default\s+)?(?:function|const)\s+(\w+)/g
\* ('$' is not a word character)
IsReactMatch(t) == t.k = "decl" /\ t.name[1] # "$"

\* line 265: name[0] === name[0].toUpperCase()
IsCapitalized(name) == name[1] \notin LowerStart

\* lines 257-276
extractComponents(content, filePath) ==
    LET reactMatches == SelectSeq(content, IsReactMatch)
        component(t) == IsCapitalized(t.name)
        kept == SelectSeq(reactMatches, component)
    IN [i \in 1..Len(kept) |->
           [name |-> kept[i].name, file |-> filePath, type |-> "react"]]

\* lines 243-254
scanComponents(ai) ==
    LET v == Visits(componentPatterns)
    IN [ai EXCEPT !.components =
            @ \o Flatten([i \in 1..Len(v) |-> extractComponents(v[i].content, v[i].path)])]

\* lines 279-288
authIndicators ==
    {"iron-session", "passport", "auth0", "firebase-auth", "next-auth", "jwt",
     "bcrypt", "crypto"}

\* lines 304-311
authFiles ==
    << Pattern("auth", "", ".js"), Pattern("auth", "", ".ts"),
       Pattern("middleware", "", ".js"), Pattern("middleware", "", ".ts"),
       Pattern("config", "auth", ".js"), Pattern("config", "auth", ".ts") >>

\* the merged dependency names read once more from package.json
AllDeps ==
    IF HasManifest
    THEN DOMAIN Spread(tree.manifest[1].dependencies,
                       tree.manifest[1].devDependencies)
    ELSE {}

\* lines 278-320
checkAuthentication(ai) ==
    [ai EXCEPT !.hasAuth =
        \/ @
        \/ authIndicators \cap AllDeps # {}
        \/ \E i \in 1..Len(authFiles) : GlobSync(authFiles[i]) # <<>>]

\* lines 323-332
dbIndicators ==
    {"mongoose", "prisma", "sequelize", "typeorm", "mongodb", "mysql",
     "postgresql", "sqlite"}

\* lines 322-346
checkDatabaseIntegration(ai) ==
    [ai EXCEPT !.hasDatabase = @ \/ dbIndicators \cap AllDeps # {}]

\* fs.readdir never rejects
getDirectoryStructureTolerant == FALSE

\* line 356: fs.readdir(dir) rejects when the root path does not exist
getDirectoryStructureFails == ~tree.exists

\* the number of directories above a file
Depth(p) == Cardinality({i \in 1..Len(p) : p[i] = "/"})

\* lines 348-371: the files and markers down to three levels
analyzeStructure(ai) ==
    [ai EXCEPT !.structure =
        {tree.files[i].path : i \in {j \in 1..Len(tree.files) :
                                        Depth(tree.files[j].path) < 3}}
        \cup {<<m.name>> : m \in tree.markers}
        \cup (IF HasManifest THEN {<<"package.json">>} ELSE {})]

\* lines 410-413
protectedPaths == {"api", "admin", "dashboard", "profile"}
needsAuth(routePath) ==
    \E i \in 1..(Len(routePath) - 2) :
        /\ routePath[i] = "/"
        /\ routePath[i + 1] \in protectedPaths
        /\ routePath[i + 2] = "/"

\* lines 415-418
brandingComponents == {"Header", "Navbar", "Navigation", "Layout", "App"}
\* a test for a name that is one of the words
needsBrandingExact(componentName) ==
    \E b \in brandingComponents : componentName = <<b>>
needsBranding(componentName) ==
    \E i \in 1..Len(componentName) : componentName[i] \in brandingComponents

\* lines 373-408
identifyIntegrationPoints(ai) ==
    LET auth(r) == needsAuth(r.path)
        brand(c) == needsBranding(c.name)
        routes == SelectSeq(ai.apiRoutes, auth)
        comps == SelectSeq(ai.components, brand)
    IN [ai EXCEPT !.integrationPoints =
           [i \in 1..Len(routes) |->
               [type |-> "auth", location |-> routes[i].file,
                about |-> <<routes[i].method, routes[i].path>>]]
           \o [i \in 1..Len(ai.models) |->
               [type |-> "database", location |-> ai.models[i].file,
                about |-> <<ai.models[i].name>>]]
           \o [i \in 1..Len(comps) |->
               [type |-> "branding", location |-> comps[i].file,
                about |-> comps[i].name]]]

-----------------------------------------------------------------------------
(* AppScanner.scanApp *)

InitScan ==
    /\ tree \in Trees
    /\ spc = "analyzePackageJson"
    /\ scanned = <<EmptyAppInfo>>
    /\ scanError = "none"
    /\ scanResult = <<>>
    /\ MutateIdle
    /\ GenIdle
    /\ TestIdle

\* One awaited step of the try block of scanApp (lines 36-64): when it
\* rejects, the catch (lines 65-67) throws and nothing is returned; otherwise
\* appInfo is updated and the next step follows.
ScanStep(step, next, rejects, updated) ==
    /\ spc = step
    /\ IF rejects
       THEN /\ spc' = "failed"
            /\ scanError' = step
            /\ scanned' = scanned
       ELSE /\ spc' = next
            /\ scanError' = scanError
            /\ scanned' = <<updated>>
    /\ UNCHANGED <<tree, scanResult>>
    /\ UNCHANGED <<mvars, gvars, tvars>>

\* line 38
DoAnalyzePackageJson ==
    ScanStep("analyzePackageJson", "detectFramework", readJsonFails,
             analyzePackageJson(scanned[1]))

\* line 41
DoDetectFramework ==
    ScanStep("detectFramework", "scanApiRoutes", FALSE,
             detectFramework(scanned[1]))

\* line 44
DoScanApiRoutes ==
    ScanStep("scanApiRoutes", "scanDatabaseModels", ReadFails(routePatterns),
             scanApiRoutes(scanned[1]))

\* line 47
DoScanDatabaseModels ==
    ScanStep("scanDatabaseModels", "scanComponents", ReadFails(modelPatterns),
             scanDatabaseModels(scanned[1]))

\* line 50
DoScanComponents ==
    ScanStep("scanComponents", "checkAuthentication",
             ReadFails(componentPatterns), scanComponents(scanned[1]))

\* line 53
DoCheckAuthentication ==
    ScanStep("checkAuthentication", "checkDatabaseIntegration", readJsonFails,
             checkAuthentication(scanned[1]))

\* line 56
DoCheckDatabaseIntegration ==
    ScanStep("checkDatabaseIntegration", "analyzeStructure", readJsonFails,
             checkDatabaseIntegration(scanned[1]))

\* line 59
DoAnalyzeStructure ==
    ScanStep("analyzeStructure", "identifyIntegrationPoints",
             getDirectoryStructureFails, analyzeStructure(scanned[1]))

\* line 62
DoIdentifyIntegrationPoints ==
    ScanStep("identifyIntegrationPoints", "return", FALSE,
             identifyIntegrationPoints(scanned[1]))

\* line 64
ScanReturn ==
    /\ spc = "return"
    /\ scanResult' = scanned
    /\ spc' = "done"
    /\ UNCHANGED <<tree, scanned, scanError>>
    /\ UNCHANGED <<mvars, gvars, tvars>>

NextScan ==
    \/ DoAnalyzePackageJson
    \/ DoDetectFramework
    \/ DoScanApiRoutes
    \/ DoScanDatabaseModels
    \/ DoScanComponents
    \/ DoCheckAuthentication
    \/ DoCheckDatabaseIntegration
    \/ DoAnalyzeStructure
    \/ DoIdentifyIntegrationPoints
    \/ ScanReturn

SpecScan == InitScan /\ [][NextScan]_vars

-----------------------------------------------------------------------------
(* Properties of the scan *)

Returned == spc = "done"
AppModel == scanResult[1]
TreeFiles == {tree.files[i] : i \in 1..Len(tree.files)}

\* the number of a step's patterns that list a file
VisitCount(patterns, f) ==
    Cardinality({i \in 1..Len(patterns) : Matches(patterns[i], f.path)})

\* the files a step reads
Candidates(patterns) == {f \in TreeFiles : VisitCount(patterns, f) > 0}
ExtractionCandidates ==
    Candidates(routePatterns) \cup Candidates(modelPatterns)
    \cup Candidates(componentPatterns)

\* the steps of scanApp, each of which either updates appInfo or throws
ScanSteps ==
    {"analyzePackageJson", "detectFramework", "scanApiRoutes",
     "scanDatabaseModels", "scanComponents", "checkAuthentication",
     "checkDatabaseIntegration", "analyzeStructure",
     "identifyIntegrationPoints", "return"}

\* C12: scan throws, and returns no AppModel, when the root path does not
\* exist and when package.json exists but does not parse; the run cannot end
\* in any other way, and an unparsable package.json stops it at the first step
C12_ScanFails ==
    /\ spc \in ScanSteps \cup {"done", "failed"}
    /\ (~tree.exists \/ readJsonFails) =>
          /\ scanResult = <<>>
          /\ spc \notin {"identifyIntegrationPoints", "return", "done"}
          /\ readJsonFails => spc \in {"analyzePackageJson", "failed"}
          /\ spc = "failed" =>
                scanError = (IF readJsonFails THEN "analyzePackageJson"
                             ELSE "analyzeStructure")

\* the scan of a root path that does not exist has thrown
C12_Witness ==
    /\ ~tree.exists
    /\ spc = "failed"
    /\ scanError = "analyzeStructure"

\* C13 (as claimed): when a candidate file of route, model or component
\* extraction cannot be read, the scan of a tree with a sound manifest does
\* not throw: the remaining steps run and an AppModel is returned
C13_UnreadableFileSkipped ==
    (/\ tree.exists
     /\ ~readJsonFails
     /\ \E f \in ExtractionCandidates : ~f.readable)
    => spc # "failed"

\* the frameworks at least half of whose markers are present in the tree
HalfPresent ==
    {i \in 1..Len(supportedFrameworks) :
        LET ind == supportedFrameworks[i].indicators
        IN 2 * Cardinality({j \in 1..Len(ind) : IndicatorExists(ind[j])})
              >= Len(ind)}

\* the tree of the scenario: package.json declares next, and pages/ and
\* next.config.js exist
NextScenario ==
    /\ HasManifest
    /\ tree.manifest[1].valid
    /\ "next" \in DOMAIN tree.manifest[1].dependencies
    /\ {Indicator("pages", TRUE), Indicator("next.config.js", FALSE)}
          \subseteq tree.markers

\* C17: when at least one framework has at least half of its markers present
\* in the tree, the returned framework is the first such framework in the
\* order next.js, react, express, vue, angular, svelte; the tree of the
\* scenario is classified as next.js, a web-app
C17_FrameworkDetection ==
    Returned =>
        /\ HalfPresent # {} =>
              AppModel.framework = supportedFrameworks[Min(HalfPresent)].name
        /\ NextScenario =>
              AppModel.framework = "next.js" /\ AppModel.type = "web-app"

\* the scenario, with exactly two of the four next.js markers present
C17_Witness ==
    /\ Returned
    /\ NextScenario
    /\ "app" \notin TopDirs
    /\ AppModel.framework = "next.js"

\* C18 (as claimed): the scan of any existing tree without package.json
\* succeeds and returns framework unknown, type unknown and no dependencies
C18_ManifestAbsentUnknown ==
    (tree.exists /\ ~HasManifest) =>
        /\ spc # "failed"
        /\ Returned =>
              /\ AppModel.framework = "unknown"
              /\ AppModel.type = "unknown"
              /\ AppModel.dependencies = NoEntries

\* C18 (as the code has it): the scan of an existing tree without
\* package.json throws only on a candidate file it cannot read; what it
\* returns has type unknown and no dependencies, and its framework is unknown
\* exactly when no framework has half of its markers in the tree, and is the
\* first framework that has them otherwise
C18_ManifestAbsent ==
    (tree.exists /\ ~HasManifest) =>
        /\ spc = "failed" => \E f \in ExtractionCandidates : ~f.readable
        /\ Returned =>
              /\ AppModel.type = "unknown"
              /\ AppModel.dependencies = NoEntries
              /\ AppModel.framework =
                    (IF HalfPresent = {} THEN "unknown"
                     ELSE supportedFrameworks[Min(HalfPresent)].name)

\* a tree without package.json is returned as a next.js app
C18_Witness ==
    /\ tree.exists
    /\ ~HasManifest
    /\ Returned
    /\ AppModel.framework = "next.js"
    /\ AppModel.type = "unknown"

\* the verb calls of a file: app.<verb>('<path>' with a lower-case verb
VerbCalls(f) ==
    LET verbCall(t) == /\ t.k = "call"
                       /\ t.obj = "app"
                       /\ t.verb \in Verbs
                       /\ t.path # <<>>
    IN SelectSeq(f.content, verbCall)

UpperCase ==
    [v \in Verbs |-> CASE v = "get" -> "GET" [] v = "post" -> "POST"
                       [] v = "put" -> "PUT" [] v = "delete" -> "DELETE"
                       [] v = "patch" -> "PATCH"]

\* the entries of one family that a file has in a route list
RoutesOf(routes, f, family) ==
    LET mine(r) == r.file = f.path /\ r.framework = family
    IN SelectSeq(routes, mine)

\* C19: extractRoutes turns the verb calls of a file, in their order, into
\* entries with the verb in upper case, the quoted path and the file; a file
\* that one route pattern lists has exactly these express entries in the
\* returned AppModel; app.get('/api/users', ...) yields GET /api/users
C19_VerbCallRoutes ==
    /\ spc = "scanApiRoutes" =>
       \A f \in TreeFiles :
          LET verbCalls == VerbCalls(f)
              got == RoutesOf(extractRoutes(f.content, f.path), f, "express")
          IN /\ Len(got) = Len(verbCalls)
             /\ \A i \in 1..Len(verbCalls) :
                   /\ got[i].method = UpperCase[verbCalls[i].verb]
                   /\ got[i].path = verbCalls[i].path
                   /\ got[i].file = f.path
    /\ Returned =>
          \A f \in TreeFiles :
              VisitCount(routePatterns, f) = 1 =>
                  RoutesOf(AppModel.apiRoutes, f, "express") =
                     RoutesOf(extractRoutes(f.content, f.path), f, "express")

\* api/users.js holds four calls, two of which are verb calls of app
C19_Witness ==
    /\ Returned
    /\ \E f \in TreeFiles :
          /\ VisitCount(routePatterns, f) = 1
          /\ Len(f.content) = 4
          /\ LET got == RoutesOf(AppModel.apiRoutes, f, "express")
             IN /\ Len(got) = 2
                /\ got[1].method = "POST" /\ got[1].path = HealthPath
                /\ got[2].method = "DELETE" /\ got[2].path = AdminPath

\* the HTTP methods a file exports handler functions for
ExportedHandlers(f) ==
    {UpperCase[v] : v \in {w \in Verbs : \E i \in 1..Len(f.content) :
                              /\ f.content[i].k = "export"
                              /\ f.content[i].fn \in {w, UpperCase[w]}}}

\* C20 (as claimed): a file that one route pattern lists contributes one
\* handler route for each HTTP method it exports a handler function for,
\* next to its verb-call routes
C20_UnionAllMatches ==
    Returned =>
        \A f \in TreeFiles :
            VisitCount(routePatterns, f) = 1 =>
                /\ Len(RoutesOf(AppModel.apiRoutes, f, "next.js")) =
                      Cardinality(ExportedHandlers(f))
                /\ Len(RoutesOf(AppModel.apiRoutes, f, "express")) =
                      Len(VerbCalls(f))

\* the first pieces of identifiers that begin with an upper-case letter
UpperStart == {"Header", "My"}

\* the names the returned AppModel lists as components of a file
ComponentNamesOf(f) ==
    {AppModel.components[i].name :
        i \in {j \in 1..Len(AppModel.components) :
                  AppModel.components[j].file = f.path}}

\* the identifiers a file declares with export that start in upper case
ExportedCapitalized(f) ==
    {f.content[i].name :
        i \in {j \in 1..Len(f.content) :
                  /\ f.content[j].k = "decl"
                  /\ f.content[j].exported
                  /\ f.content[j].name[1] \in UpperStart}}

\* C21 (as claimed): the components the AppModel lists for a file are exactly
\* the identifiers the file declares with export that start with an upper-case
\* letter; a declaration without export, and an identifier that starts with a
\* lower-case letter, '_' or '$', is not listed
C21_ExportedCapitalizedOnly ==
    Returned =>
        \A f \in Candidates(componentPatterns) :
            ComponentNamesOf(f) = ExportedCapitalized(f)

\* some file of the tree is listed by one of the patterns
AnyFileMatches(patterns) == \E f \in TreeFiles : VisitCount(patterns, f) > 0

\* the globs under which a tree keeps its database code: the model and schema
\* directories
DatabaseGlobs == modelPatterns

\* C22 (as claimed): hasAuth is true exactly when a dependency is one of the
\* auth keywords or a file is listed by the auth globs, and hasDatabase is
\* true exactly when a dependency is one of the database keywords or a file is
\* listed by the database globs
C22_PresenceFlags ==
    Returned =>
        /\ AppModel.hasAuth =
              (\/ authIndicators \cap DOMAIN AppModel.dependencies # {}
               \/ AnyFileMatches(authFiles))
        /\ AppModel.hasDatabase =
              (\/ dbIndicators \cap DOMAIN AppModel.dependencies # {}
               \/ AnyFileMatches(DatabaseGlobs))

\* the path fragments of protected routes, and the words of layout-like names
ProtectedFragments ==
    {<<"/", w, "/">> : w \in {"api", "admin", "dashboard", "profile"}}
LayoutWords == {"Header", "Navbar", "Navigation", "Layout", "App"}

ContainsFragment(routePath) ==
    \E i \in 1..(Len(routePath) - 2) :
        SubSeq(routePath, i, i + 2) \in ProtectedFragments
LayoutLike(name) == \E i \in 1..Len(name) : name[i] \in LayoutWords

\* the integration points of one kind, in their order
PointsOf(ai, kind) ==
    LET mine(p) == p.type = kind
    IN SelectSeq(ai.integrationPoints, mine)

\* the integration points follow from the routes, models and components of
\* the same appInfo
PointsDerived(ai) ==
    LET protected(r) == ContainsFragment(r.path)
        layout(c) == LayoutLike(c.name)
        routes == SelectSeq(ai.apiRoutes, protected)
        comps == SelectSeq(ai.components, layout)
        auth == PointsOf(ai, "auth")
        database == PointsOf(ai, "database")
        branding == PointsOf(ai, "branding")
    IN /\ Len(ai.integrationPoints) = Len(routes) + Len(ai.models) + Len(comps)
       /\ Len(auth) = Len(routes)
       /\ \A i \in 1..Len(routes) :
             /\ auth[i].location = routes[i].file
             /\ auth[i].about = <<routes[i].method, routes[i].path>>
       /\ Len(database) = Len(ai.models)
       /\ \A i \in 1..Len(ai.models) :
             /\ database[i].location = ai.models[i].file
             /\ database[i].about = <<ai.models[i].name>>
       /\ Len(branding) = Len(comps)
       /\ \A i \in 1..Len(comps) :
             /\ branding[i].location = comps[i].file
             /\ branding[i].about = comps[i].name

\* C23: the integrationPoints of a returned AppModel are one auth point for
\* each route whose path holds a protected fragment, one database point for
\* each model and one branding point for each component whose name holds a
\* layout-like word, each at its entry's source file, and nothing else; the
\* list is empty until route, model and component extraction have run, and
\* the three lists do not change after it is built
C23_IntegrationPoints ==
    /\ spc \in ScanSteps \ {"return"} => scanned[1].integrationPoints = <<>>
    /\ spc = "return" => PointsDerived(scanned[1])
    /\ Returned => PointsDerived(AppModel)

\* a tree with a protected and an unprotected route and with a layout-like
\* and another component
C23_Witness ==
    /\ Returned
    /\ \E i, j \in 1..Len(AppModel.apiRoutes) :
          /\ AppModel.apiRoutes[i].path = HealthPath
          /\ AppModel.apiRoutes[j].path = AdminPath
    /\ \E i, j \in 1..Len(AppModel.components) :
          /\ AppModel.components[i].name = <<"My", "Layout">>
          /\ AppModel.components[j].name = <<"_", "x">>
    /\ Len(PointsOf(AppModel, "auth")) >= 1
    /\ Len(PointsOf(AppModel, "branding")) >= 1
    /\ Len(AppModel.integrationPoints) <
          Len(AppModel.apiRoutes) + Len(AppModel.components)

\* the steps the AppModel's primary fields come from
CommutingSteps ==
    {"analyzePackageJson", "detectFramework", "scanApiRoutes",
     "scanDatabaseModels", "scanComponents", "checkAuthentication",
     "checkDatabaseIntegration"}

\* one step of scanApp applied to an appInfo
Step(name, ai) ==
    CASE name = "analyzePackageJson" -> analyzePackageJson(ai)
      [] name = "detectFramework" -> detectFramework(ai)
      [] name = "scanApiRoutes" -> scanApiRoutes(ai)
      [] name = "scanDatabaseModels" -> scanDatabaseModels(ai)
      [] name = "scanComponents" -> scanComponents(ai)
      [] name = "checkAuthentication" -> checkAuthentication(ai)
      [] name = "checkDatabaseIntegration" -> checkDatabaseIntegration(ai)

\* the appInfos that k of the steps, taken in every order, lead to, each with
\* the steps that were run
RECURSIVE AfterSteps(_)
AfterSteps(k) ==
    IF k = 0 THEN {<<{}, EmptyAppInfo>>}
    ELSE UNION { {<<p[1] \cup {s}, Step(s, p[2])>> : s \in CommutingSteps \ p[1]} :
                 p \in AfterSteps(k - 1) }

\* C24 (as claimed): the steps before integration-point derivation, run in
\* any order on the tree of a scan that returned, end in the AppModel the scan
\* returned, with the same framework and type
C24_OrderCommutative ==
    Returned =>
        \A p \in AfterSteps(Cardinality(CommutingSteps)) :
            identifyIntegrationPoints(analyzeStructure(p[2])) = AppModel

\* C28 (as claimed): in a returned AppModel the type is api-server exactly
\* when the framework is express, web-app exactly when the framework is
\* next.js, react or vue, and unknown only when the framework is unknown,
\* angular or svelte
C28_FrameworkTypeConsistent ==
    Returned =>
        /\ AppModel.type = "api-server" <=> AppModel.framework = "express"
        /\ AppModel.type = "web-app" <=>
              AppModel.framework \in {"next.js", "react", "vue"}
        /\ AppModel.type = "unknown" =>
              AppModel.framework \in {"unknown", "angular", "svelte"}

\* the entries of a list of the AppModel that come from one file
EntriesOf(list, f) ==
    LET mine(e) == e.file = f.path
    IN SelectSeq(list, mine)

\* C29 (as claimed): a file that the patterns of an extraction step list,
\* once or several times, has in the returned AppModel the routes, models or
\* components of one reading of it, each once
C29_ProcessedOnce ==
    Returned =>
        \A f \in TreeFiles :
            /\ VisitCount(routePatterns, f) > 0 =>
                  EntriesOf(AppModel.apiRoutes, f) =
                      extractRoutes(f.content, f.path)
            /\ VisitCount(modelPatterns, f) > 0 =>
                  EntriesOf(AppModel.models, f) =
                      extractModels(f.content, f.path)
            /\ VisitCount(componentPatterns, f) > 0 =>
                  EntriesOf(AppModel.components, f) =
                      extractComponents(f.content, f.path)

\* C30 (as claimed): the method of every route of a returned AppModel is one
\* of GET, POST, PUT, DELETE, PATCH, in upper case
C30_MethodUpperCase ==
    Returned =>
        \A i \in 1..Len(AppModel.apiRoutes) :
            AppModel.apiRoutes[i].method \in {"GET", "POST", "PUT", "DELETE", "PATCH"}

-----------------------------------------------------------------------------
(* The generated files the tester looks at *)

\* the longest integrationFiles list handed to the tester
MaxGenerated == 2
\* the most testIntegration calls made on one tester
MaxCalls == 2

\* paths as the tester names them, the extension a token of its own
SessionFile == <<"weam-integration", "/", "middleware", "/", "weamSession", ".js">>
DbFile == <<"weam-integration", "/", "lib", "/", "db", ".js">>
ProxyFile == <<"weam-integration", "/", "weam-proxy", "/", "[...path]", "/", "route", ".ts">>
EnvFile == <<"weam-integration", "/", ".env", ".weam">>
JsonFile == <<"weam-integration", "/", "package", ".json">>
TestedPaths == {SessionFile, DbFile, ProxyFile, EnvFile, JsonFile}

\* the entries an integrationFiles list is made of
GeneratedEntries ==
    { [type |-> "middleware", path |-> SessionFile],
      [type |-> "database", path |-> DbFile],
      [type |-> "proxy", path |-> ProxyFile],
      [type |-> "config", path |-> EnvFile],
      [type |-> "package", path |-> JsonFile] }
GeneratedLists == UNION {[1..n -> GeneratedEntries] : n \in 0..MaxGenerated}

\* what is on disk under a name: nothing, a directory, an empty file, or a
\* file holding some of the tokens the tester looks for (json: it parses)
NoFile == [kind |-> "absent", tokens |-> {}, json |-> FALSE]
Directory == [kind |-> "dir", tokens |-> {}, json |-> FALSE]
EmptyFile == [kind |-> "empty", tokens |-> {}, json |-> FALSE]
File(tokens) == [kind |-> "file", tokens |-> tokens, json |-> FALSE]
JsonText == [kind |-> "file", tokens |-> {}, json |-> TRUE]

SessionStates ==
    { NoFile, Directory, File({}),
      File({"iron-session", "const "}),
      File({"weamSessionMiddleware", "const "}),
      File({"iron-session", "weamSessionMiddleware", "const "}),
      File({"iron-session", "weamSessionMiddleware"}) }
DbStates == {NoFile, File({"mongoose", "weamUserFields", "const "})}
ProxyStates ==
    { NoFile,
      File({"NextRequest", "fetch", "APP_BASE_URL", "import "}),
      File({"NextRequest", "fetch", "import "}) }
EnvStates ==
    { NoFile,
      File({"WEAM_COOKIE_NAME", "MONGODB_URI", "PORT"}),
      File({"WEAM_COOKIE_NAME", "PORT"}) }
JsonStates == {EmptyFile, JsonText}

Disks ==
    { d \in [TestedPaths -> SessionStates \cup DbStates \cup ProxyStates
                            \cup EnvStates \cup JsonStates] :
        /\ d[SessionFile] \in SessionStates
        /\ d[DbFile] \in DbStates
        /\ d[ProxyFile] \in ProxyStates
        /\ d[EnvFile] \in EnvStates
        /\ d[JsonFile] \in JsonStates }

-----------------------------------------------------------------------------
(* IntegrationTester: the tests *)

\* lines 7-12
NewTestResults == [passed |-> 0, failed |-> 0, total |-> 0, errors |-> <<>>]

Error(about, msg) == [about |-> about, msg |-> msg]

Passed(tr) == [tr EXCEPT !.passed = @ + 1]

\* a failed check that leaves no entry in errors
FailedSilently(tr, e) == [tr EXCEPT !.failed = @ + 1]

\* failed++ and errors.push(...)
Failed(tr, e) == [tr EXCEPT !.failed = @ + 1, !.errors = Append(@, e)]

\* fs.pathExists
PathExists(d, p) == d[p].kind # "absent"
\* fs.readFile rejects on a missing file and on a directory
ReadRejects(d, p) == d[p].kind \in {"absent", "dir"}
\* String.prototype.includes on the content read
Includes(d, p, token) == token \in d[p].tokens
IncludesAll(d, p, tokens) == \A t \in tokens : Includes(d, p, t)
IncludesAny(d, p, tokens) == \E t \in tokens : Includes(d, p, t)

\* lines 51-71, one file
ExistenceCheck(d, file, tr) ==
    IF PathExists(d, file.path)
    THEN IF d[file.path].kind # "empty"
         THEN Passed(tr)
         ELSE Failed(tr, Error(file.path, "is empty"))
    ELSE Failed(tr, Error(file.path, "not found"))

RECURSIVE ExistenceChecks(_, _, _)
ExistenceChecks(d, files, tr) ==
    IF files = <<>> THEN tr
    ELSE ExistenceChecks(d, Tail(files), ExistenceCheck(d, Head(files), tr))

\* lines 47-73
testGeneratedFiles(d, g, tr) == ExistenceChecks(d, g, tr)

\* a syntax check that does not count a file it cannot read
SyntaxCheckReadErrorDropped(d, file, tr) ==
    LET p == file.path
        ext == p[Len(p)]
    IN IF ReadRejects(d, p) THEN tr
       ELSE IF ext \in {".js", ".jsx"}
       THEN IF IncludesAny(d, p, {"const ", "function ", "module.exports"})
            THEN Passed(tr)
            ELSE Failed(tr, Error(p, "has unusual JavaScript structure"))
       ELSE IF ext \in {".ts", ".tsx"}
       THEN IF IncludesAny(d, p, {"import ", "export ", "interface "})
            THEN Passed(tr)
            ELSE Failed(tr, Error(p, "has unusual TypeScript structure"))
       ELSE IF ext = ".json"
       THEN IF d[p].json THEN Passed(tr)
            ELSE Failed(tr, Error(p, "Invalid JSON"))
       ELSE Passed(tr)

\* lines 79-122, one file
SyntaxCheck(d, file, tr) ==
    LET p == file.path
        ext == p[Len(p)]
    IN IF ReadRejects(d, p) THEN Failed(tr, Error(p, "Read error"))
       ELSE IF ext \in {".js", ".jsx"}
       THEN IF IncludesAny(d, p, {"const ", "function ", "module.exports"})
            THEN Passed(tr)
            ELSE Failed(tr, Error(p, "has unusual JavaScript structure"))
       ELSE IF ext \in {".ts", ".tsx"}
       THEN IF IncludesAny(d, p, {"import ", "export ", "interface "})
            THEN Passed(tr)
            ELSE Failed(tr, Error(p, "has unusual TypeScript structure"))
       ELSE IF ext = ".json"
       THEN IF d[p].json THEN Passed(tr)
            ELSE Failed(tr, Error(p, "Invalid JSON"))
       ELSE Passed(tr)

RECURSIVE SyntaxChecks(_, _, _)
SyntaxChecks(d, files, tr) ==
    IF files = <<>> THEN tr
    ELSE SyntaxChecks(d, Tail(files), SyntaxCheck(d, Head(files), tr))

\* lines 75-124
testFileSyntax(d, g, tr) == SyntaxChecks(d, g, tr)

\* a session check satisfied by either of the two names
SessionMarkersEither(d) ==
    IncludesAny(d, SessionFile, {"iron-session", "weamSessionMiddleware"})

\* line 135
SessionMarkers(d) ==
    IncludesAll(d, SessionFile, {"iron-session", "weamSessionMiddleware"})

\* lines 126-153
testAuthenticationSetup(d, tr) ==
    IF PathExists(d, SessionFile)
    THEN IF ReadRejects(d, SessionFile)
         THEN Failed(tr, Error(<<>>, "Authentication test"))
         ELSE IF SessionMarkers(d)
         THEN Passed(tr)
         ELSE Failed(tr, Error(<<>>, "Weam session middleware missing required components"))
    ELSE Failed(tr, Error(<<>>, "Weam session middleware not found"))

\* lines 155-182
testDatabaseIntegration(d, tr) ==
    IF PathExists(d, DbFile)
    THEN IF ReadRejects(d, DbFile)
         THEN Failed(tr, Error(<<>>, "Database test"))
         ELSE IF IncludesAll(d, DbFile, {"mongoose", "weamUserFields"})
         THEN Passed(tr)
         ELSE Failed(tr, Error(<<>>, "Database integration missing required components"))
    ELSE Failed(tr, Error(<<>>, "Database integration file not found"))

\* integrationFiles.find(f => f.type === type): <<>> or <<the first such entry>>
Find(g, type) ==
    LET at == {i \in 1..Len(g) : g[i].type = type}
    IN IF at = {} THEN <<>> ELSE <<g[Min(at)]>>

\* a proxy check that looks for the request type and the forwarding call only
ProxyMarkersTwo(d, p) == IncludesAll(d, p, {"NextRequest", "fetch"})

\* line 192
ProxyMarkers(d, p) == IncludesAll(d, p, {"NextRequest", "fetch", "APP_BASE_URL"})

\* lines 184-210
testProxyConfiguration(d, g, tr) ==
    LET proxyFile == Find(g, "proxy")
    IN IF proxyFile # <<>>
       THEN IF ReadRejects(d, proxyFile[1].path)
            THEN Failed(tr, Error(<<>>, "Proxy test"))
            ELSE IF ProxyMarkers(d, proxyFile[1].path)
            THEN Passed(tr)
            ELSE Failed(tr, Error(<<>>, "Proxy configuration missing required components"))
       ELSE Failed(tr, Error(<<>>, "Proxy configuration not found"))

\* line 220
EnvMarkers(d, p) == IncludesAll(d, p, {"WEAM_COOKIE_NAME", "MONGODB_URI", "PORT"})

\* lines 212-238
testEnvironmentConfiguration(d, g, tr) ==
    LET envFile == Find(g, "config")
    IN IF envFile # <<>>
       THEN IF ReadRejects(d, envFile[1].path)
            THEN Failed(tr, Error(<<>>, "Environment test"))
            ELSE IF EnvMarkers(d, envFile[1].path)
            THEN Passed(tr)
            ELSE Failed(tr, Error(<<>>, "Environment configuration missing required variables"))
       ELSE Failed(tr, Error(<<>>, "Environment configuration not found"))

\* line 37
WithTotal(tr) == [tr EXCEPT !.total = tr.passed + tr.failed]

-----------------------------------------------------------------------------
(* IntegrationTester.testIntegration *)

\* a tester has been constructed (lines 6-13); nothing has been tested yet
InitTest ==
    /\ disk \in Disks
    /\ generated \in GeneratedLists
    /\ tpc = "ready"
    /\ testResults = NewTestResults
    /\ calls = 0
    /\ reports = <<>>
    /\ MutateIdle
    /\ GenIdle
    /\ ScanIdle

\* testIntegration(appPath, integrationFiles) is called on the tester
TestCall ==
    /\ tpc = "ready"
    /\ calls < MaxCalls
    /\ calls' = calls + 1
    /\ tpc' = "testGeneratedFiles"
    /\ UNCHANGED <<disk, generated, testResults, reports>>
    /\ UNCHANGED <<mvars, gvars, svars>>

\* One awaited test of the try block (lines 18-35).  Every test catches its
\* own errors, so none rejects and the catch of lines 40-44 is not entered.
TestStep(step, next, updated) ==
    /\ tpc = step
    /\ testResults' = updated
    /\ tpc' = next
    /\ UNCHANGED <<disk, generated, calls, reports>>
    /\ UNCHANGED <<mvars, gvars, svars>>

\* line 20
DoTestGeneratedFiles ==
    TestStep("testGeneratedFiles", "testFileSyntax",
             testGeneratedFiles(disk, generated, testResults))

\* line 23
DoTestFileSyntax ==
    TestStep("testFileSyntax", "testAuthenticationSetup",
             testFileSyntax(disk, generated, testResults))

\* line 26
DoTestAuthenticationSetup ==
    TestStep("testAuthenticationSetup", "testDatabaseIntegration",
             testAuthenticationSetup(disk, testResults))

\* line 29
DoTestDatabaseIntegration ==
    TestStep("testDatabaseIntegration", "testProxyConfiguration",
             testDatabaseIntegration(disk, testResults))

\* line 32
DoTestProxyConfiguration ==
    TestStep("testProxyConfiguration", "testEnvironmentConfiguration",
             testProxyConfiguration(disk, generated, testResults))

\* line 35
DoTestEnvironmentConfiguration ==
    TestStep("testEnvironmentConfiguration", "return",
             testEnvironmentConfiguration(disk, generated, testResults))

\* lines 37-39
TestReturn ==
    /\ tpc = "return"
    /\ testResults' = WithTotal(testResults)
    /\ reports' = Append(reports, testResults')
    /\ tpc' = "ready"
    /\ UNCHANGED <<disk, generated, calls>>
    /\ UNCHANGED <<mvars, gvars, svars>>

NextTest ==
    \/ TestCall
    \/ DoTestGeneratedFiles
    \/ DoTestFileSyntax
    \/ DoTestAuthenticationSetup
    \/ DoTestDatabaseIntegration
    \/ DoTestProxyConfiguration
    \/ DoTestEnvironmentConfiguration
    \/ TestReturn

SpecTest == InitTest /\ [][NextTest]_vars

-----------------------------------------------------------------------------
(* Properties of the tester *)

\* what testIntegration returns on a new tester
Verify(d, g) ==
    WithTotal(
      testEnvironmentConfiguration(d, g,
        testProxyConfiguration(d, g,
          testDatabaseIntegration(d,
            testAuthenticationSetup(d,
              testFileSyntax(d, g,
                testGeneratedFiles(d, g, NewTestResults)))))))

SessionMechanism == "iron-session"
EntryPoint == "weamSessionMiddleware"
SessionCheckFailed(report) ==
    \E i \in 1..Len(report.errors) :
        report.errors[i] = Error(<<>>, "Weam session middleware missing required components")

\* the session-middleware file is on disk and does not mention iron-session
LacksMarker ==
    /\ disk[SessionFile].kind = "file"
    /\ SessionMechanism \notin disk[SessionFile].tokens

\* the same disk with iron-session added to the session-middleware file
WithMarker ==
    [disk EXCEPT ![SessionFile].tokens = @ \cup {SessionMechanism}]

\* C14 (as claimed): when the session-middleware file lacks the
\* session-mechanism marker, the first report has the session check failed
\* and a failed count one higher than for the same inputs with the marker
C14_MarkerAddsOneFailure ==
    (Len(reports) >= 1 /\ LacksMarker) =>
        /\ SessionCheckFailed(reports[1])
        /\ reports[1].failed = Verify(WithMarker, generated).failed + 1

\* C14 (as the code has it): when the session-middleware file lacks the
\* session-mechanism marker the session check fails, whatever the other checks
\* do; the failed count is one higher than with the marker present when the
\* file mentions the entry-point function, and the same when it does not,
\* since the check then fails with the marker too
C14_MarkerFailure ==
    (Len(reports) >= 1 /\ LacksMarker) =>
        /\ SessionCheckFailed(reports[1])
        /\ reports[1].failed =
              Verify(WithMarker, generated).failed
              + (IF EntryPoint \in disk[SessionFile].tokens THEN 1 ELSE 0)
        /\ reports[1].passed + reports[1].failed =
              Verify(WithMarker, generated).total

\* the file mentions the entry point only, and other checks fail as well
C14_Witness ==
    /\ Len(reports) >= 1
    /\ LacksMarker
    /\ EntryPoint \in disk[SessionFile].tokens
    /\ reports[1].failed >= 3
    /\ Verify(WithMarker, generated).failed = reports[1].failed - 1

\* C15: the first call on a tester runs every check and returns total =
\* passed + failed = 2N + 4 for a list of N files, with one errors entry for
\* each failed check, whatever fails; no call stops before its last check
C15_NeverAborts ==
    /\ tpc # "ready" => ENABLED NextTest
    /\ \A k \in 1..Len(reports) :
          /\ reports[k].total = reports[k].passed + reports[k].failed
          /\ Len(reports[k].errors) = reports[k].failed
    /\ Len(reports) >= 1 =>
          /\ reports[1].total = 2 * Len(generated) + 4
          /\ reports[1] = Verify(disk, generated)

\* a list of two files neither of which can be read, and every named check
\* failing as well
C15_Witness ==
    /\ Len(reports) >= 1
    /\ Len(generated) = 2
    /\ reports[1].failed = 8
    /\ reports[1].total = 8

\* C16 (as claimed): a second call on the same tester with the same list and
\* the same files on disk returns the same passed, failed, total and errors
\* as the first
C16_SameReport ==
    Len(reports) >= 2 => reports[2] = reports[1]

\* the errors the k-th call added
NewErrors(k) ==
    SubSeq(reports[k].errors,
           (IF k = 1 THEN 0 ELSE Len(reports[k - 1].errors)) + 1,
           Len(reports[k].errors))

\* the k-th call failed its proxy check, its environment check
ProxyCheckFailed(k) ==
    \E i \in 1..Len(NewErrors(k)) :
        /\ NewErrors(k)[i].about = <<>>
        /\ NewErrors(k)[i].msg \in
              {"Proxy test", "Proxy configuration not found",
               "Proxy configuration missing required components"}
EnvCheckFailed(k) ==
    \E i \in 1..Len(NewErrors(k)) :
        /\ NewErrors(k)[i].about = <<>>
        /\ NewErrors(k)[i].msg \in
              {"Environment test", "Environment configuration not found",
               "Environment configuration missing required variables"}

\* the list names a file of the type and the file can be read
Checked(type) ==
    /\ Find(generated, type) # <<>>
    /\ disk[Find(generated, type)[1].path].kind \in {"file", "empty"}
Mentions(type, tokens) ==
    tokens \subseteq disk[Find(generated, type)[1].path].tokens

\* C25 (as claimed): the proxy check passes exactly when the proxy file
\* mentions NextRequest and fetch, and the environment check exactly when the
\* environment file mentions WEAM_COOKIE_NAME, MONGODB_URI and PORT
C25_TwoProxyMarkers ==
    \A k \in 1..Len(reports) :
        /\ Checked("proxy") =>
              (~ProxyCheckFailed(k)
                  <=> Mentions("proxy", {"NextRequest", "fetch"}))
        /\ Checked("config") =>
              (~EnvCheckFailed(k)
                  <=> Mentions("config", {"WEAM_COOKIE_NAME", "MONGODB_URI", "PORT"}))

\* C25 (as the code has it): in every call the proxy check passes exactly
\* when the proxy file mentions NextRequest, fetch and APP_BASE_URL, and the
\* environment check exactly when the environment file mentions
\* WEAM_COOKIE_NAME, MONGODB_URI and PORT; a check whose file is not listed or
\* cannot be read fails
C25_MarkerRequirements ==
    \A k \in 1..Len(reports) :
        /\ ~ProxyCheckFailed(k) <=>
              /\ Checked("proxy")
              /\ Mentions("proxy", {"NextRequest", "fetch", "APP_BASE_URL"})
        /\ ~EnvCheckFailed(k) <=>
              /\ Checked("config")
              /\ Mentions("config", {"WEAM_COOKIE_NAME", "MONGODB_URI", "PORT"})

\* the proxy file mentions the request type and the forwarding call only and
\* its check fails in both calls, next to an environment file that passes
C25_Witness ==
    /\ Len(reports) = 2
    /\ Checked("proxy")
    /\ Mentions("proxy", {"NextRequest", "fetch"})
    /\ ~Mentions("proxy", {"APP_BASE_URL"})
    /\ ProxyCheckFailed(1) /\ ProxyCheckFailed(2)
    /\ Checked("config")
    /\ ~EnvCheckFailed(1) /\ ~EnvCheckFailed(2)

====
